---- MODULE Spec2Model ----
(***************************************************************************)
(* Model of the predictive analytics engine, src/pipeline/analytics.py.    *)
(*                                                                         *)
(* The store is a map from table names to tables; a table is a set of      *)
(* column names and a sequence of rows, a row a function from column name  *)
(* to value.  Numbers the code computes in floating point are held as      *)
(* exact fractions <<n, d>> with d > 0 and gcd(n, d) = 1; <<0, 0>> is NaN. *)
(* Input columns hold integers: ProfitMargin in percent, dollars and       *)
(* quantities in units, StockTurnover in tenths (5 is a turnover of 0.5).  *)
(***************************************************************************)
EXTENDS Integers, Sequences, FiniteSets, TLC

VARIABLES
    db,            \* the store: table name -> table
    mode,          \* how the entry point was invoked
    pc,            \* position of the running entry point
    vendor_df,     \* frames returned by load_analytics_data
    sales_df,
    purchases_df,
    scores_df,     \* what each step returned
    inventory,
    anomalies,
    pricing,
    forecasts,
    forecast,      \* what the latest call of forecast_demand returned
    log,           \* the log lines of the current run
    ret,           \* how run_analytics ended
    run,           \* number of the current run
    first,         \* the result tables as the first run left them
    before,        \* the result tables as the current run found them
    forest         \* the scores the seeded outlier model gives the rows

vars == <<db, mode, pc, vendor_df, sales_df, purchases_df, scores_df, inventory,
          anomalies, pricing, forecasts, forecast, log, ret, run, first, before,
          forest>>

-----------------------------------------------------------------------------
(* Exact fractions.                                                        *)

Abs(n) == IF n < 0 THEN -n ELSE n

\* Each operator of this section takes its arguments as values: the set
\* {e(v) : v \in {x}} holds e of the value of x, and CHOOSE takes it out.
RECURSIVE GCD(_, _)
GCD(a, b) == IF b = 0 THEN a ELSE CHOOSE g \in {GCD(b, v) : v \in {a % b}} : TRUE

NaN == <<0, 0>>

\* inf and -inf of float64: a denominator of 0 under a sign.
Inf(s) == <<s, 0>>

IsNaN(x) == x[1] = 0 /\ x[2] = 0

IsInf(x) == x[1] # 0 /\ x[2] = 0

Sign(n) == IF n < 0 THEN -1 ELSE IF n > 0 THEN 1 ELSE 0

RatOf(n, d, g) == IF d < 0 THEN <<(-n) \div g, (-d) \div g>> ELSE <<n \div g, d \div g>>

\* The fraction n / d in lowest terms; a mean over no values (d = 0) is NaN.
Rat(n, d) ==
    CHOOSE r \in {IF v[2] = 0 THEN NaN ELSE RatOf(v[1], v[2], GCD(Abs(v[1]), Abs(v[2]))) :
                  v \in {<<n, d>>}} : TRUE

R(n) == <<n, 1>>

RAddOf(x, y) == IF IsNaN(x) \/ IsNaN(y) THEN NaN
                ELSE IF IsInf(x) THEN (IF IsInf(y) /\ y[1] # x[1] THEN NaN ELSE x)
                ELSE IF IsInf(y) THEN y
                ELSE Rat(x[1] * y[2] + y[1] * x[2], x[2] * y[2])

RAdd(x, y) == CHOOSE r \in {RAddOf(v[1], v[2]) : v \in {<<x, y>>}} : TRUE

RSub(x, y) == CHOOSE r \in {RAddOf(v[1], <<-v[2][1], v[2][2]>>) : v \in {<<x, y>>}} : TRUE

RMulOf(x, y) == IF IsNaN(x) \/ IsNaN(y) THEN NaN
                ELSE IF IsInf(x) \/ IsInf(y)
                     THEN (IF x[1] = 0 \/ y[1] = 0 THEN NaN
                           ELSE Inf(Sign(x[1]) * Sign(y[1])))
                ELSE Rat(x[1] * y[1], x[2] * y[2])

RMul(x, y) == CHOOSE r \in {RMulOf(v[1], v[2]) : v \in {<<x, y>>}} : TRUE

RDivOf(x, y) == IF IsNaN(x) \/ IsNaN(y) THEN NaN
                ELSE IF IsInf(x)
                     THEN (IF IsInf(y) THEN NaN
                           ELSE Inf(x[1] * (IF y[1] < 0 THEN -1 ELSE 1)))
                ELSE IF IsInf(y) THEN R(0)
                ELSE IF y[1] = 0
                     THEN (IF x[1] = 0 THEN NaN ELSE Inf(Sign(x[1])))
                ELSE Rat(x[1] * y[2], x[2] * y[1])

\* x / y as float64 divides: 0 / 0 is NaN, a non-zero over 0 is inf under the
\* sign of the numerator, and a finite number over inf is 0.
RDiv(x, y) == CHOOSE r \in {RDivOf(v[1], v[2]) : v \in {<<x, y>>}} : TRUE

RLtOf(x, y) == /\ ~IsNaN(x) /\ ~IsNaN(y)
               /\ IF IsInf(x) \/ IsInf(y)
                  THEN /\ <<x[1], x[2]>> # <<y[1], y[2]>>
                       /\ ((x[1] < 0 /\ IsInf(x)) \/ (y[1] > 0 /\ IsInf(y)))
                  ELSE x[1] * y[2] < y[1] * x[2]

\* Comparisons with NaN are false, as in IEEE arithmetic.
RLt(x, y) == \E v \in {<<x, y>>} : RLtOf(v[1], v[2])
RLe(x, y) == \E v \in {<<x, y>>} : ~IsNaN(v[1]) /\ ~IsNaN(v[2]) /\ ~RLtOf(v[2], v[1])
RGt(x, y) == RLt(y, x)

-----------------------------------------------------------------------------
(* The float64 arithmetic of the code, for the places where its rounding   *)
(* decides a comparison. A natural number is a sequence of limbs below     *)
(* Base, the lowest first, whose last limb is not 0. A double is           *)
(* <<s, m, e>>: the number s * m * 2^e with s the sign, m an odd natural   *)
(* of at most 53 bits and e an integer; zero is <<1, <<>>, 0>>.            *)

Base == 2^15

RECURSIVE BFromInt(_)
BFromInt(n) == IF n = 0 THEN <<>> ELSE <<n % Base>> \o BFromInt(n \div Base)

BToInt(a) == IF a = <<>> THEN 0 ELSE IF Len(a) = 1 THEN a[1] ELSE a[1] + Base * a[2]

RECURSIVE BTrim(_)
BTrim(a) == IF a = <<>> \/ a[Len(a)] # 0 THEN a ELSE BTrim(SubSeq(a, 1, Len(a) - 1))

BLimb(a, i) == IF i <= Len(a) THEN a[i] ELSE 0

RECURSIVE BAddFrom(_, _, _, _)
BAddFrom(a, b, i, c) ==
    IF i > Len(a) /\ i > Len(b) THEN BFromInt(c)
    ELSE <<(BLimb(a, i) + BLimb(b, i) + c) % Base>>
         \o BAddFrom(a, b, i + 1, (BLimb(a, i) + BLimb(b, i) + c) \div Base)

BAdd(a, b) == CHOOSE r \in {BAddFrom(v[1], v[2], 1, 0) : v \in {<<a, b>>}} : TRUE

\* a - b for a >= b
RECURSIVE BSubFrom(_, _, _, _)
BSubFrom(a, b, i, c) ==
    IF i > Len(a) THEN <<>>
    ELSE <<(a[i] - BLimb(b, i) - c + Base) % Base>>
         \o BSubFrom(a, b, i + 1, IF a[i] - BLimb(b, i) - c < 0 THEN 1 ELSE 0)

BSub(a, b) == CHOOSE r \in {BTrim(u) : u \in {BSubFrom(v[1], v[2], 1, 0) : v \in {<<a, b>>}}} : TRUE

RECURSIVE BCmpFrom(_, _, _)
BCmpFrom(a, b, i) ==
    IF i = 0 THEN 0
    ELSE IF a[i] # b[i] THEN (IF a[i] < b[i] THEN -1 ELSE 1)
    ELSE BCmpFrom(a, b, i - 1)

BCmp(a, b) == IF Len(a) # Len(b) THEN (IF Len(a) < Len(b) THEN -1 ELSE 1)
              ELSE BCmpFrom(a, b, Len(a))

\* a * k + c for k <= Base
RECURSIVE BMulSmallFrom(_, _, _, _)
BMulSmallFrom(a, k, i, c) ==
    IF i > Len(a) THEN BFromInt(c)
    ELSE <<(a[i] * k + c) % Base>> \o BMulSmallFrom(a, k, i + 1, (a[i] * k + c) \div Base)

BMulSmall(a, k, c) == CHOOSE r \in {BMulSmallFrom(v, k, 1, c) : v \in {a}} : TRUE

BShiftLimbs(a, n) == IF a = <<>> THEN a ELSE [i \in 1..n |-> 0] \o a

RECURSIVE BMulFrom(_, _, _)
BMulFrom(a, b, j) ==
    IF j > Len(b) THEN <<>>
    ELSE BAdd(BShiftLimbs(BMulSmall(a, b[j], 0), j - 1), BMulFrom(a, b, j + 1))

BMul(a, b) == CHOOSE r \in {BMulFrom(v[1], v[2], 1) : v \in {<<a, b>>}} : TRUE

\* a * 2^k
BShl(a, k) == IF k % 15 = 0 THEN BShiftLimbs(a, k \div 15)
              ELSE BShiftLimbs(BMulSmall(a, 2^(k % 15), 0), k \div 15)

\* <<a \div k, a % k>> for 0 < k <= Base, from the highest limb down
RECURSIVE BDivSmallFrom(_, _, _, _)
BDivSmallFrom(a, k, i, r) ==
    IF i = 0 THEN <<<<>>, r>>
    ELSE CHOOSE res \in {<<rest[1] \o <<(r * Base + a[i]) \div k>>, rest[2]>> :
                           rest \in {BDivSmallFrom(a, k, i - 1, (r * Base + a[i]) % k)}} : TRUE

BDivSmall(a, k) ==
    CHOOSE res \in {<<BTrim(d[1]), d[2]>> : d \in {BDivSmallFrom(a, k, Len(a), 0)}} : TRUE

\* a \div 2^k
BShr(a, k) == IF k \div 15 >= Len(a) THEN <<>>
              ELSE IF k % 15 = 0 THEN SubSeq(a, k \div 15 + 1, Len(a))
              ELSE BDivSmall(SubSeq(a, k \div 15 + 1, Len(a)), 2^(k % 15))[1]

\* bit i of a, the lowest being bit 0
BBit(a, i) == (BLimb(a, i \div 15 + 1) \div 2^(i % 15)) % 2

\* whether the k lowest bits of a are all 0
BLowZero(a, k) == /\ \A i \in 1..(k \div 15) : BLimb(a, i) = 0
                  /\ BLimb(a, k \div 15 + 1) % 2^(k % 15) = 0

RECURSIVE IntBits(_)
IntBits(n) == IF n = 0 THEN 0 ELSE 1 + IntBits(n \div 2)

BBits(a) == IF a = <<>> THEN 0 ELSE 15 * (Len(a) - 1) + IntBits(a[Len(a)])

RECURSIVE IntTrailingZeros(_)
IntTrailingZeros(n) == IF n % 2 = 1 THEN 0 ELSE 1 + IntTrailingZeros(n \div 2)

RECURSIVE BTrailingZeros(_, _)
BTrailingZeros(a, i) == IF a[i] = 0 THEN 15 + BTrailingZeros(a, i + 1)
                        ELSE IntTrailingZeros(a[i])

\* One step of the long division of a by b, bit i of a coming down into the
\* remainder r; q collects the quotient.
BDivStepWith(s, r2) ==
    IF BCmp(r2, s.b) >= 0
    THEN [s EXCEPT !.i = s.i - 1, !.q = BMulSmall(s.q, 2, 1), !.r = BSub(r2, s.b)]
    ELSE [s EXCEPT !.i = s.i - 1, !.q = BMulSmall(s.q, 2, 0), !.r = r2]

BDivStepOf(s) ==
    CHOOSE n \in {BDivStepWith(s, r2) : r2 \in {BMulSmall(s.r, 2, BBit(s.a, s.i))}} : TRUE


\* Up to n steps.
RECURSIVE BDivSteps(_, _)
BDivSteps(s, n) ==
    IF n = 0 \/ s.i < 0 THEN s
    ELSE CHOOSE res \in {BDivSteps(v, n - 1) : v \in {BDivStepOf(s)}} : TRUE

RECURSIVE BDivLoop(_)
BDivLoop(s) ==
    IF s.i < 0 THEN <<s.q, s.r>>
    ELSE CHOOSE res \in {BDivLoop(v) : v \in {BDivSteps(s, 8)}} : TRUE

\* <<a \div b, a % b>> for b > 0; the bits of a above the length of b are
\* below b and start the remainder.
BDivMod(a, b) ==
    IF Len(b) = 1 THEN CHOOSE res \in {<<d[1], BFromInt(d[2])>> : d \in {BDivSmall(a, b[1])}} : TRUE
    ELSE IF BBits(a) < BBits(b) THEN <<<<>>, a>>
    ELSE CHOOSE res \in {BDivLoop([a |-> v[1], b |-> v[2], i |-> v[3], q |-> <<>>,
                                   r |-> BShr(v[1], v[3] + 1)]) :
                         v \in {<<a, b, BBits(a) - BBits(b)>>}} : TRUE

FZero == <<1, <<>>, 0>>

\* The double nearest to s * n * 2^e, ties going to the even mantissa.
FRoundBits(s, n, e, sh) ==
    IF sh <= 0 THEN <<s, n, e>>
    ELSE <<s,
           IF BBit(n, sh - 1) = 1 /\ (~BLowZero(n, sh - 1) \/ BBit(n, sh) = 1)
           THEN BAdd(BShr(n, sh), <<1>>) ELSE BShr(n, sh),
           e + sh>>

FOdd(x) == IF x[2] = <<>> THEN FZero
           ELSE IF x[2][1] % 2 = 1 THEN x
           ELSE CHOOSE r \in {<<x[1], BShr(x[2], z), x[3] + z>> : z \in {BTrailingZeros(x[2], 1)}} : TRUE

FRound(s, n, e) ==
    CHOOSE r \in {FOdd(y) : y \in {FRoundBits(v[1], v[2], v[3], BBits(v[2]) - 53) :
                                   v \in {<<s, n, e>>}}} : TRUE

\* The double of an integer of the model.
FInt(n) == FRound(IF n < 0 THEN -1 ELSE 1, BFromInt(IF n < 0 THEN -n ELSE n), 0)

\* x * y
FMulOf(x, y) == IF x[2] = <<>> \/ y[2] = <<>> THEN FZero
                ELSE FRound(x[1] * y[1], BMul(x[2], y[2]), x[3] + y[3])


\* The quotient of the mantissas to 56 bits or more, with one more bit below
\* them that says whether the division left a remainder.
FDivBits(x, y, k) ==
    CHOOSE r \in {FRound(x[1] * y[1],
                         BMulSmall(d[1], 2, IF d[2] = <<>> THEN 0 ELSE 1),
                         x[3] - y[3] - k - 1) :
                  d \in {BDivMod(BShl(x[2], k), y[2])}} : TRUE

\* x / y for y other than 0
FDivOf(x, y) == IF x[2] = <<>> THEN FZero
                ELSE IF x[2] = y[2] THEN <<x[1] * y[1], <<1>>, x[3] - y[3]>>
                ELSE IF y[2] = <<1>> THEN <<x[1] * y[1], x[2], x[3] - y[3]>>
                ELSE FDivBits(x, y, 56 + BBits(y[2]) - BBits(x[2]))


FAddBits(x, y, e) ==
    CHOOSE r \in {IF x[1] = y[1] THEN FRound(x[1], BAdd(v[1], v[2]), e)
                  ELSE IF BCmp(v[1], v[2]) = 0 THEN FZero
                  ELSE IF BCmp(v[1], v[2]) > 0 THEN FRound(x[1], BSub(v[1], v[2]), e)
                  ELSE FRound(y[1], BSub(v[2], v[1]), e) :
                  v \in {<<BShl(x[2], x[3] - e), BShl(y[2], y[3] - e)>>}} : TRUE

\* x + y
FAddOf(x, y) == IF x[2] = <<>> THEN y
                ELSE IF y[2] = <<>> THEN x
                ELSE FAddBits(x, y, IF x[3] < y[3] THEN x[3] ELSE y[3])


\* An expression over doubles, as the code writes it: a whole number, a
\* sum, a product or a quotient of expressions.
DInt(n) == <<"int", n>>
DAdd(a, b) == <<"+", a, b>>
DMul(a, b) == <<"*", a, b>>
DDiv(a, b) == <<"/", a, b>>

\* The double nearest to a fraction.
DRat(x) == CHOOSE e \in {DDiv(DInt(v[1]), DInt(v[2])) : v \in {x}} : TRUE

\* The double an expression evaluates to, each operation rounding its result.
RECURSIVE DoubleOf(_)
DoubleOf(e) ==
    IF e[1] = "int" THEN FInt(e[2])
    ELSE CHOOSE r \in {IF e[1] = "+" THEN FAddOf(v[1], v[2])
                        ELSE IF e[1] = "*" THEN FMulOf(v[1], v[2])
                        ELSE FDivOf(v[1], v[2]) :
                        v \in {<<DoubleOf(e[2]), DoubleOf(e[3])>>}} : TRUE

Double(e) == CHOOSE r \in {DoubleOf(v) : v \in {e}} : TRUE

\* How far the double of the expression e lies from the whole number n, in
\* units of the last place of n; of a difference that is no such count, and
\* next to 0, the sign.
FUnitsOf(d, sh) ==
    IF d[2] = <<>> THEN 0
    ELSE IF sh >= 0 /\ sh < 15 /\ Len(d[2]) = 1 THEN d[1] * d[2][1] * 2^sh
    ELSE d[1]

FUnits(e, n) ==
    CHOOSE u \in {FUnitsOf(d, d[3] + 53 - IntBits(IF n < 0 THEN -n ELSE n)) :
                  d \in {Double(DAdd(e, DInt(-n)))}} : TRUE

\* A column of doubles holds fractions: a fraction stands for the double
\* nearest to it, and where the code's arithmetic ends next to a whole
\* number instead of on it, the value carries the units of the last place
\* between them as a third component.
WithUnits(x, u) ==
    CHOOSE r \in {IF v[2] = 0 THEN v[1] ELSE <<v[1][1], v[1][2], v[2]>> : v \in {<<x, u>>}} : TRUE

\* The fraction a value stands for, without its rounding.
Exact(x) == <<x[1], x[2]>>

UnitsOf(x) == IF Len(x) = 3 THEN x[3] ELSE 0

\* The comparisons of such values.
DLtOf(x, y) == \/ RLtOf(Exact(x), Exact(y))
               \/ (~IsNaN(x) /\ Exact(x) = Exact(y) /\ UnitsOf(x) < UnitsOf(y))
DLt(x, y) == \E v \in {<<x, y>>} : DLtOf(v[1], v[2])
DLe(x, y) == \E v \in {<<x, y>>} : ~IsNaN(v[1]) /\ ~IsNaN(v[2]) /\ ~DLtOf(v[2], v[1])
DGt(x, y) == DLt(y, x)

-----------------------------------------------------------------------------
(* Tables and frames.                                                      *)

NoTable == [exists |-> FALSE, cols |-> {}, rows |-> <<>>]

Table(cols, rows) == [exists |-> TRUE, cols |-> cols, rows |-> rows]

\* A step's failure sentinel, and a returned frame.
None == [ok |-> FALSE]

Frame(cols, rows) == [ok |-> TRUE, cols |-> cols, rows |-> rows]

HasCols(df, cs) == cs \subseteq df.cols

\* df[[c1, c2, ...]]: the projection on the listed columns.
Project(df, cs) ==
    Frame(cs, [i \in 1..Len(df.rows) |-> [k \in cs |-> df.rows[i][k]]])

\* The sum of a sequence of integers.
RECURSIVE SumInts(_)
SumInts(s) == IF s = <<>> THEN 0 ELSE Head(s) + SumInts(Tail(s))

\* The rows of s at the positions in keep, in their order: df[mask].
RECURSIVE SelectFrom(_, _, _)
SelectFrom(s, keep, i) ==
    IF i > Len(s) THEN <<>>
    ELSE IF i \in keep THEN <<s[i]>> \o SelectFrom(s, keep, i + 1)
         ELSE SelectFrom(s, keep, i + 1)

SelectRows(s, keep) == SelectFrom(s, keep, 1)

LogLine(level, msg) == [level |-> level, msg |-> msg]

Range(s) == {s[i] : i \in 1..Len(s)}

-----------------------------------------------------------------------------
(* The write every persisting step ends with:                              *)
(*     frame.to_sql(name, engine, if_exists='replace', index=False)        *)
(* An existing table is dropped, then the table is created from the        *)
(* frame's columns, then the rows are inserted.  SQLite compares column    *)
(* names without regard to case, so the creation is refused when two       *)
(* columns of the frame differ only in case; the drop is not undone.       *)

\* The spelling SQLite compares: the one column of the model that is
\* written in another case than the column the scoring step derives.
CaseFold(c) == IF c = "performancescore" THEN "PerformanceScore" ELSE c

NameClash(cols) == \E a, b \in cols : a # b /\ CaseFold(a) = CaseFold(b)

\* Variant: if_exists='append', the rows are added to those of the table.
to_sql_append(frame, old) ==
    IF NameClash(frame.cols)
    THEN [raised |-> TRUE, table |-> NoTable]
    ELSE [raised |-> FALSE,
          table |-> Table(frame.cols, old.rows \o frame.rows)]

to_sql(frame, old) ==
    IF NameClash(frame.cols)
    THEN [raised |-> TRUE, table |-> NoTable]
    ELSE [raised |-> FALSE, table |-> Table(frame.cols, frame.rows)]

\* What a step hands back to the action that runs it.
Outcome(r, t, l) == [ret |-> r, table |-> t, log |-> l]

-----------------------------------------------------------------------------
(* calculate_vendor_scores                                                 *)

\* Series.replace(0, 1): only a value equal to 0 is replaced.
Replace0(n) == IF n = 0 THEN 1 ELSE n

\* The columns lines 57-59 read; a missing one raises KeyError.
ScoresNeeds == {"GrossProfit", "TotalSalesQuantity", "TotalSalesDollars",
                "TotalPurchaseDollars"}

\* Line 68: f'{feature}_Normalized'.
NormalizedCol(f) ==
    CASE f = "ProfitMargin" -> "ProfitMargin_Normalized"
      [] f = "StockTurnover" -> "StockTurnover_Normalized"
      [] f = "TotalSalesDollars" -> "TotalSalesDollars_Normalized"
      [] f = "EfficiencyRatio" -> "EfficiencyRatio_Normalized"

\* Lines 64-78: a feature that is not a column is skipped by the loop, and
\* the composite then reads the normalized column the frame came with, or
\* raises KeyError when it came with none.
CanScore(df) ==
    /\ HasCols(df, ScoresNeeds)
    /\ \A f \in {"ProfitMargin", "StockTurnover"} :
           f \in df.cols \/ NormalizedCol(f) \in df.cols

\* Weights of the composite score, in hundredths.
WeightProfitMargin == 35
WeightStockTurnover == 25
WeightTotalSalesDollars == 25
WeightEfficiencyRatio == 15

\* Variant: the four features weighted alike.
WeightEqual(f) == Rat(25, 100)

Weight(f) == CASE f = "ProfitMargin" -> Rat(WeightProfitMargin, 100)
               [] f = "StockTurnover" -> Rat(WeightStockTurnover, 100)
               [] f = "TotalSalesDollars" -> Rat(WeightTotalSalesDollars, 100)
               [] f = "EfficiencyRatio" -> Rat(WeightEfficiencyRatio, 100)

\* Variant: the division without replace(0, 1).
ProfitPerUnitUnguarded(row) ==
    RDiv(R(row["GrossProfit"]), R(row["TotalSalesQuantity"]))

\* Lines 57-59.
ProfitPerUnit(row) ==
    RDiv(R(row["GrossProfit"]), R(Replace0(row["TotalSalesQuantity"])))

TotalSales(df) ==
    SumInts([i \in 1..Len(df.rows) |-> df.rows[i]["TotalSalesDollars"]])

RevenueShare(df, row) == RDiv(R(row["TotalSalesDollars"]), R(TotalSales(df)))

EfficiencyRatio(row) ==
    RDiv(R(row["TotalSalesDollars"]), R(Replace0(row["TotalPurchaseDollars"])))

\* df[f] of a row, for the features that are normalized.
Feature(row, f) == IF f = "EfficiencyRatio" THEN EfficiencyRatio(row) ELSE R(row[f])

\* df[f].max(): NaN for an empty column.
RECURSIVE MaxFrom(_, _, _, _)
MaxFrom(rows, f, i, best) ==
    IF i > Len(rows) THEN best
    ELSE MaxFrom(rows, f, i + 1,
                 IF RGt(Feature(rows[i], f), best) THEN Feature(rows[i], f) ELSE best)

ColMax(df, f) ==
    IF Len(df.rows) = 0 THEN NaN ELSE MaxFrom(df.rows, f, 2, Feature(df.rows[1], f))

\* Variant: the division without the guard on the column maximum.
NormalizeUnguarded(v, max) == RMul(RDiv(v, max), R(100))

\* Lines 66-70: (df[f] / max) * 100 when max > 0, else 0.
NormalizeValue(v, max) ==
    IF RGt(max, R(0)) THEN RMul(RDiv(v, max), R(100)) ELSE R(0)

Normalized(df, row, f) ==
    IF f \in df.cols \cup {"EfficiencyRatio"}
    THEN NormalizeValue(Feature(row, f), ColMax(df, f))
    ELSE R(row[NormalizedCol(f)])

\* pd.cut(score, bins=[0, 25, 50, 75, 100], labels=[...]): bin i is
\* (Bins[i], Bins[i+1]], a value in no bin gets no label (NaN).
Bins == <<0, 25, 50, 75, 100>>

Labels == <<"Poor", "Fair", "Good", "Excellent">>

NoTier == "NaN"

\* A value of df[f] as a double; the turnover column holds tenths.
FeatureDouble(x, f) == DRat(IF f = "StockTurnover" THEN RDiv(x, R(10)) ELSE x)

\* Lines 66-70 in the doubles of the code.
NormalizedDouble(df, row, f) ==
    IF f \in df.cols \cup {"EfficiencyRatio"}
    THEN LET max == ColMax(df, f)
         IN  IF RGt(max, R(0))
             THEN DMul(DDiv(FeatureDouble(Feature(row, f), f), FeatureDouble(max, f)),
                       DInt(100))
             ELSE DInt(0)
    ELSE DInt(row[NormalizedCol(f)])

\* A term of lines 74-77, the literal weight being the double nearest to it.
WeightedDouble(df, row, f) == DMul(NormalizedDouble(df, row, f), DRat(Weight(f)))

\* Lines 73-78 in the doubles of the code, summed from the left.
CompositeDouble(df, row) ==
    DAdd(DAdd(DAdd(WeightedDouble(df, row, "ProfitMargin"),
                   WeightedDouble(df, row, "StockTurnover")),
              WeightedDouble(df, row, "TotalSalesDollars")),
         WeightedDouble(df, row, "EfficiencyRatio"))

CompositeFraction(df, row) ==
    RAdd(RAdd(RMul(Normalized(df, row, "ProfitMargin"), Weight("ProfitMargin")),
              RMul(Normalized(df, row, "StockTurnover"), Weight("StockTurnover"))),
         RAdd(RMul(Normalized(df, row, "TotalSalesDollars"),
                   Weight("TotalSalesDollars")),
              RMul(Normalized(df, row, "EfficiencyRatio"),
                   Weight("EfficiencyRatio"))))

\* The score as a fraction and, where the fraction is an edge of a bin of
\* line 81, how far from it the double of the code lies:
\* 75.00000000000001 is <<75, 1, 1>>.
CompositeRounding(df, row, x) ==
    IF \E i \in 1..Len(Bins) : x = R(Bins[i])
    THEN WithUnits(x, FUnits(CompositeDouble(df, row), x[1]))
    ELSE x

\* Lines 73-78.
CompositeScore(df, row) ==
    CHOOSE y \in {CompositeRounding(df, row, x) : x \in {CompositeFraction(df, row)}} : TRUE

InBin(x, i) == DLt(R(Bins[i]), x) /\ DLe(x, R(Bins[i + 1]))

\* Variant: bins closed on the left, [Bins[i], Bins[i+1]), as right=False
\* would make them.
CutLeftClosed(x) ==
    IF \E i \in 1..Len(Labels) : DLe(R(Bins[i]), x) /\ DLt(x, R(Bins[i + 1]))
    THEN Labels[CHOOSE i \in 1..Len(Labels) :
                    DLe(R(Bins[i]), x) /\ DLt(x, R(Bins[i + 1]))]
    ELSE NoTier

Cut(x) ==
    IF \E i \in 1..Len(Labels) : InBin(x, i)
    THEN Labels[CHOOSE i \in 1..Len(Labels) : InBin(x, i)]
    ELSE NoTier

ScoreCols == {"ProfitPerUnit", "RevenueShare", "EfficiencyRatio",
              "ProfitMargin_Normalized", "StockTurnover_Normalized",
              "TotalSalesDollars_Normalized", "EfficiencyRatio_Normalized",
              "PerformanceScore", "PerformanceTier"}

\* The row of the enriched frame: the columns of the input and the
\* derived ones, which replace an input column of the same name.
ScoredRowWith(df, row, score) ==
    [k \in df.cols \cup ScoreCols |->
        CASE k = "ProfitPerUnit" -> ProfitPerUnit(row)
          [] k = "RevenueShare" -> RevenueShare(df, row)
          [] k = "EfficiencyRatio" -> EfficiencyRatio(row)
          [] k = "ProfitMargin_Normalized" -> Normalized(df, row, "ProfitMargin")
          [] k = "StockTurnover_Normalized" -> Normalized(df, row, "StockTurnover")
          [] k = "TotalSalesDollars_Normalized" ->
                 Normalized(df, row, "TotalSalesDollars")
          [] k = "EfficiencyRatio_Normalized" ->
                 Normalized(df, row, "EfficiencyRatio")
          [] k = "PerformanceScore" -> score
          [] k = "PerformanceTier" -> Cut(score)
          [] OTHER -> row[k]]

ScoredRow(df, row) ==
    CHOOSE r \in {ScoredRowWith(df, row, score) : score \in {CompositeScore(df, row)}} : TRUE

\* Lines 54-85: the enriched frame.
ScoredFrame(df) ==
    Frame(df.cols \cup ScoreCols,
          [i \in 1..Len(df.rows) |-> ScoredRow(df, df.rows[i])])

calculate_vendor_scores(df, old) ==
    IF ~CanScore(df)
    THEN Outcome(None, old, <<LogLine("ERROR", "Failed to calculate scores")>>)
    ELSE LET out == ScoredFrame(df)
             w == to_sql(out, old)
         IN  IF w.raised
             THEN Outcome(None, w.table,
                          <<LogLine("ERROR", "Failed to calculate scores")>>)
             ELSE Outcome(out, w.table,
                          <<LogLine("INFO", "Calculated performance scores")>>)

-----------------------------------------------------------------------------
(* optimize_inventory                                                      *)

InventoryNeeds == {"TotalSalesQuantity", "StockTurnover", "TotalPurchaseQuantity",
                   "VendorName", "Description"}

InventoryCols == {"VendorName", "Description", "DemandRate", "ReorderPoint",
                  "OptimalOrderQuantity", "IsOverstocked", "IsUnderstocked"}

DaysPerYear == 365
LeadTime == 7
SupplyDays == 30

\* The turnover ratio of a row; the column holds tenths.
Turnover(row) == Rat(row["StockTurnover"], 10)

DemandRate(row) == Rat(row["TotalSalesQuantity"], DaysPerYear)

SafetyStock(row) == RMul(RMul(DemandRate(row), R(LeadTime)), Rat(3, 2))

\* Variant: the reorder point without the safety stock.
ReorderPointNoSafety(row) == RMul(DemandRate(row), R(LeadTime))

ReorderPoint(row) == RAdd(RMul(DemandRate(row), R(LeadTime)), SafetyStock(row))

\* Lines 158 and 162 in the doubles of the code: where q / 365 * 30 is a
\* whole number as a fraction, the units of its last place that the double
\* lies away from it.
SupplyRounding(q) ==
    IF (q * SupplyDays) % DaysPerYear # 0 THEN 0
    ELSE FUnits(DMul(DDiv(DInt(q), DInt(DaysPerYear)), DInt(SupplyDays)),
                (q * SupplyDays) \div DaysPerYear)

\* Line 162; 245.99999999999997 is <<246, 1, -1>>, for sales of 2993.
OptimalOrderQuantity(row) ==
    WithUnits(RMul(DemandRate(row), R(SupplyDays)), SupplyRounding(row["TotalSalesQuantity"]))

\* Line 165.
IsOverstocked(row) ==
    /\ RLt(Turnover(row), Rat(1, 2))
    /\ DGt(R(row["TotalPurchaseQuantity"]), OptimalOrderQuantity(row))

\* Line 168.
IsUnderstocked(row) ==
    /\ RGt(Turnover(row), R(2))
    /\ RLt(R(row["TotalPurchaseQuantity"]), ReorderPoint(row))

\* The columns lines 158-168 add.
InventoryAdds == {"DemandRate", "LeadTime", "SafetyStock", "ReorderPoint",
                  "OptimalOrderQuantity", "IsOverstocked", "IsUnderstocked"}

InventoryRow(df, row) ==
    [k \in df.cols \cup InventoryAdds |->
        CASE k = "DemandRate" -> DemandRate(row)
          [] k = "LeadTime" -> LeadTime
          [] k = "SafetyStock" -> SafetyStock(row)
          [] k = "ReorderPoint" -> ReorderPoint(row)
          [] k = "OptimalOrderQuantity" -> OptimalOrderQuantity(row)
          [] k = "IsOverstocked" -> IsOverstocked(row)
          [] k = "IsUnderstocked" -> IsUnderstocked(row)
          [] OTHER -> row[k]]

InventoryFrame(df) ==
    Frame(df.cols \cup InventoryAdds,
          [i \in 1..Len(df.rows) |-> InventoryRow(df, df.rows[i])])

\* Variant: "or" for "and" in the count of the optimal rows.
IsOptimalEither(row) == ~row["IsOverstocked"] \/ ~row["IsUnderstocked"]

\* Line 180: the rows that are neither overstocked nor understocked.
IsOptimal(row) == ~row["IsOverstocked"] /\ ~row["IsUnderstocked"]

\* int(df[c].sum()) of a column of booleans.
CountTrue(df, c) == Cardinality({i \in 1..Len(df.rows) : df.rows[i][c]})

\* Lines 177-181.
InventorySummary(df) ==
    [ok |-> TRUE,
     overstocked_items |-> CountTrue(df, "IsOverstocked"),
     understocked_items |-> CountTrue(df, "IsUnderstocked"),
     optimal_items |-> Cardinality({i \in 1..Len(df.rows) : IsOptimal(df.rows[i])})]

optimize_inventory(df, old) ==
    IF ~HasCols(df, InventoryNeeds)
    THEN Outcome(<<None, None>>, old,
                 <<LogLine("ERROR", "Inventory optimization failed")>>)
    ELSE LET full == InventoryFrame(df)
             recommendations == Project(full, InventoryCols)
             w == to_sql(recommendations, old)
         IN  IF w.raised
             THEN Outcome(<<None, None>>, w.table,
                          <<LogLine("ERROR", "Inventory optimization failed")>>)
             ELSE Outcome(<<recommendations, InventorySummary(full)>>, w.table,
                          <<LogLine("INFO", "Generated inventory recommendations")>>)

-----------------------------------------------------------------------------
(* optimize_pricing                                                        *)

\* The columns every call reads.  StockTurnover is read at line 244 for a
\* row whose margin is above 60, and for no other row.
PricingNeeds == {"TotalSalesDollars", "TotalSalesQuantity", "TotalPurchaseDollars",
                 "TotalPurchaseQuantity", "ProfitMargin", "VendorName",
                 "Description"}

PricingCols == {"VendorName", "Description", "AvgSalePrice", "CurrentMarkup",
                "PriceRecommendation", "RecommendedPrice"}

\* The three directives, as the words they are made of.
Increase == <<"Increase", "by", "5-10%">>
Decrease == <<"Decrease", "by", "5%", "to", "boost", "sales">>
Maintain == <<"Maintain", "current", "price">>

\* 'word' in text
Contains(word, text) == \E i \in 1..Len(text) : text[i] = word

MarginLow == 20
MarginHigh == 60

\* Variant: the guard as a lower bound, max(x, 1).
RAtLeast1(x) == IF RLt(x, R(1)) THEN R(1) ELSE x

\* Series.replace(0, 1) on a column of fractions.
RReplace0(x) == IF x = R(0) THEN R(1) ELSE x

AvgSalePrice(row) ==
    RDiv(R(row["TotalSalesDollars"]), R(Replace0(row["TotalSalesQuantity"])))

AvgPurchasePrice(row) ==
    RDiv(R(row["TotalPurchaseDollars"]), R(Replace0(row["TotalPurchaseQuantity"])))

\* Line 238.
CurrentMarkup(row) ==
    RMul(RDiv(RSub(AvgSalePrice(row), AvgPurchasePrice(row)),
              RReplace0(AvgPurchasePrice(row))), R(100))

\* Variant: the low-margin rule with <= for <.
recommend_at_threshold(row) ==
    IF row["ProfitMargin"] <= MarginLow THEN Increase
    ELSE IF row["ProfitMargin"] > MarginHigh /\ RLt(Turnover(row), R(1))
         THEN Decrease
         ELSE Maintain

\* Lines 241-247.
recommend_price_adjustment(row) ==
    IF row["ProfitMargin"] < MarginLow THEN Increase
    ELSE IF row["ProfitMargin"] > MarginHigh /\ RLt(Turnover(row), R(1))
         THEN Decrease
         ELSE Maintain

\* Lines 252-257: the price follows from the words of the directive.
PriceFor(directive, price) ==
    IF Contains("Increase", directive) THEN RMul(price, Rat(1075, 1000))
    ELSE IF Contains("Decrease", directive) THEN RMul(price, Rat(95, 100))
         ELSE price

RecommendedPrice(row) ==
    PriceFor(recommend_price_adjustment(row), AvgSalePrice(row))

PricingAdds == {"AvgSalePrice", "AvgPurchasePrice", "CurrentMarkup",
                "PriceRecommendation", "RecommendedPrice"}

PricingRow(df, row) ==
    [k \in df.cols \cup PricingAdds |->
        CASE k = "AvgSalePrice" -> AvgSalePrice(row)
          [] k = "AvgPurchasePrice" -> AvgPurchasePrice(row)
          [] k = "CurrentMarkup" -> CurrentMarkup(row)
          [] k = "PriceRecommendation" -> recommend_price_adjustment(row)
          [] k = "RecommendedPrice" -> RecommendedPrice(row)
          [] OTHER -> row[k]]

PricingFrame(df) ==
    Frame(df.cols \cup PricingAdds,
          [i \in 1..Len(df.rows) |-> PricingRow(df, df.rows[i])])

\* On a frame without rows the apply of line 252 returns a frame, not a
\* column, and assigning it to RecommendedPrice raises.
optimize_pricing(df, old) ==
    IF \/ ~HasCols(df, PricingNeeds)
       \/ Len(df.rows) = 0
       \/ /\ "StockTurnover" \notin df.cols
          /\ \E i \in 1..Len(df.rows) : df.rows[i]["ProfitMargin"] > MarginHigh
    THEN Outcome(None, old, <<LogLine("ERROR", "Price optimization failed")>>)
    ELSE LET out == Project(PricingFrame(df), PricingCols)
             w == to_sql(out, old)
         IN  IF w.raised
             THEN Outcome(None, w.table,
                          <<LogLine("ERROR", "Price optimization failed")>>)
             ELSE Outcome(out, w.table,
                          <<LogLine("INFO", "Generated pricing recommendations")>>)

-----------------------------------------------------------------------------
(* detect_anomalies                                                        *)

AnomalyFeatures == {"ProfitMargin", "StockTurnover", "TotalSalesDollars",
                    "SalesToPurchaseRatio"}

\* Lines 213-214: the columns of the persisted projection.
AnomalyCols == {"VendorName", "Description", "ProfitMargin", "StockTurnover",
                "AnomalyScore"}

\* contamination=0.1, in percent.
ContaminationPct == 10

\* The k-th smallest (k from 0) of a non-empty sequence of integers.
Kth(s, k) ==
    CHOOSE v \in {s[i] : i \in 1..Len(s)} :
        /\ Cardinality({i \in 1..Len(s) : s[i] < v}) <= k
        /\ Cardinality({i \in 1..Len(s) : s[i] <= v}) > k

\* The fitted model's offset: the ContaminationPct-th percentile of the
\* training scores, by linear interpolation between the order statistics.
Offset(s) ==
    LET pos == (Len(s) - 1) * ContaminationPct
        k == pos \div 100
        lo == Kth(s, k)
        hi == IF k + 1 < Len(s) THEN Kth(s, k + 1) ELSE lo
    IN  RAdd(R(lo), RMul(Rat(pos % 100, 100), R(hi - lo)))

\* fit_predict: -1 (an anomaly) where the score lies below the offset.
Flagged(s) == {i \in 1..Len(s) : RLt(R(s[i]), Offset(s))}

\* Variant: without random_state a later fit scores the rows differently.
UnseededScores(model, n) ==
    IF n = 1 THEN model
    ELSE [i \in 1..Len(model) |-> model[Len(model) + 1 - i]]

\* IsolationForest(contamination=0.1, random_state=42): with the seed fixed
\* the scores are a function of the feature rows alone, the one drawn in
\* the initial state; n counts the fits of this behaviour.
IsolationForestScores(model, n) == model

AnomalyFrame(df, s) ==
    LET flags == Flagged(s)
    IN  Frame(df.cols \cup {"IsAnomaly", "AnomalyScore"},
              [i \in 1..Len(df.rows) |->
                  [k \in df.cols \cup {"IsAnomaly", "AnomalyScore"} |->
                      IF k = "IsAnomaly" THEN i \in flags
                      ELSE IF k = "AnomalyScore" THEN Rat(s[i], 10)
                      ELSE df.rows[i][k]]])

\* Variant: the mask of the rows that are not flagged.
AnomalyMaskInverted(full) ==
    {i \in 1..Len(full.rows) : ~full.rows[i]["IsAnomaly"]}

\* Line 213: df['IsAnomaly'] == True.
AnomalyMask(full) == {i \in 1..Len(full.rows) : full.rows[i]["IsAnomaly"]}

\* Variant: the selected rows in ascending order of their score, as
\* sort_values('AnomalyScore') would leave them.
FlaggedRowsSorted(full, keep) ==
    [r \in 1..Cardinality(keep) |->
        full.rows[CHOOSE i \in keep :
            Cardinality({j \in keep :
                \/ RLt(full.rows[j]["AnomalyScore"], full.rows[i]["AnomalyScore"])
                \/ /\ full.rows[j]["AnomalyScore"] = full.rows[i]["AnomalyScore"]
                   /\ j < i}) = r - 1]]

\* df[mask]: the selected rows, in the order of the frame.
FlaggedRows(full, keep) == SelectRows(full.rows, keep)

\* StandardScaler.fit_transform refuses a frame without rows.
detect_anomalies(df, old, model, n) ==
    IF ~HasCols(df, AnomalyFeatures \cup {"VendorName", "Description"})
       \/ Len(df.rows) = 0
    THEN Outcome(None, old, <<LogLine("ERROR", "Anomaly detection failed")>>)
    ELSE LET full == AnomalyFrame(df, IsolationForestScores(model, n))
             keep == AnomalyMask(full)
             out == Project(Frame(full.cols, FlaggedRows(full, keep)),
                            AnomalyCols)
             w == to_sql(out, old)
         IN  IF w.raised
             THEN Outcome(None, w.table,
                          <<LogLine("ERROR", "Anomaly detection failed")>>)
             ELSE Outcome(out, w.table, <<LogLine("INFO", "Detected anomalies")>>)

-----------------------------------------------------------------------------
(* forecast_demand                                                         *)

MinForecastRows == 10
BinSize == 100
MaxWindow == 7
MediumPoints == 30

Min(a, b) == IF a < b THEN a ELSE b

\* "" and NULL are falsy: no vendor filter.
NoVendor == ""

\* The positions of the rows that remain after the vendor filter.
Filtered(df, vendor_name) ==
    IF vendor_name = NoVendor THEN 1..Len(df.rows)
    ELSE {i \in 1..Len(df.rows) : df.rows[i]["VendorName"] = vendor_name}

\* The grouping key of the row at position i: its date, or its index
\* label (the position in the unfiltered frame, from 0) // 100.
GroupKey(df, i) ==
    IF "SalesDate" \in df.cols THEN df.rows[i]["SalesDate"]
    ELSE (i - 1) \div BinSize

\* The keys of the last w groups (groupby sorts by key).
LastKeys(keys, w) ==
    {k \in keys : Cardinality({j \in keys : j > k}) < w}

\* The sum of column c over the rows at the positions in S.
RECURSIVE SumOver(_, _, _)
SumOver(df, S, c) ==
    IF S = {} THEN 0
    ELSE LET i == CHOOSE j \in S : TRUE
         IN  df.rows[i][c] + SumOver(df, S \ {i}, c)

GroupSum(df, kept, keys, c) ==
    SumOver(df, {i \in kept : GroupKey(df, i) \in keys}, c)

\* rolling(window=w).mean().iloc[-1]: the mean of the last w group sums,
\* NaN when the window is empty.
LastAverage(df, kept, keys, w, c) ==
    Rat(GroupSum(df, kept, LastKeys(keys, w), c), w)

ForecastResult(df, kept, days_ahead) ==
    LET keys == {GroupKey(df, i) : i \in kept}
        n == Cardinality(keys)
        window == Min(MaxWindow, n \div 2)
    IN  [ok |-> TRUE,
         forecast_quantity |->
             RMul(LastAverage(df, kept, keys, window, "SalesQuantity"), R(days_ahead)),
         forecast_dollars |->
             RMul(LastAverage(df, kept, keys, window, "SalesDollars"), R(days_ahead)),
         confidence |-> IF n > MediumPoints THEN "Medium" ELSE "Low"]

\* Variant: the length of the frame before the vendor filter.
RowsLoaded(df, kept) == Len(df.rows)

\* Line 109: len(df), the number of rows that remain after the filter.
RowsLeft(df, kept) == Cardinality(kept)

\* Returns the result (None when there is none) and the line it logs.
forecast_demand(df, vendor_name, days_ahead) ==
    IF vendor_name # NoVendor /\ "VendorName" \notin df.cols
    THEN Outcome(None, NoTable, <<LogLine("ERROR", "Forecasting failed")>>)
    ELSE LET kept == Filtered(df, vendor_name)
         IN  IF RowsLeft(df, kept) < MinForecastRows
             THEN Outcome(None, NoTable,
                          <<LogLine("WARNING", "Insufficient data for forecasting")>>)
             ELSE IF ~HasCols(df, {"SalesQuantity", "SalesDollars"})
                  THEN Outcome(None, NoTable,
                               <<LogLine("ERROR", "Forecasting failed")>>)
                  ELSE Outcome(ForecastResult(df, kept, days_ahead), NoTable,
                               <<LogLine("INFO", "Generated forecast")>>)

-----------------------------------------------------------------------------
(* run_analytics, step 5: the top vendors and their forecasts.             *)

TopCount == 5
ForecastCount == 3
ForecastDays == 30

\* vendor_df.nlargest(5, 'TotalSalesDollars')['VendorName'].tolist():
\* the positions of the rows in descending order of sales, ties in row order.
\* Applied to the frames CanRank accepts; for the others line 307 raises.
Rank(rows, i) ==
    Cardinality({j \in 1..Len(rows) :
        \/ rows[j]["TotalSalesDollars"] > rows[i]["TotalSalesDollars"]
        \/ /\ rows[j]["TotalSalesDollars"] = rows[i]["TotalSalesDollars"]
           /\ j < i})

NLargest(rows, n) ==
    [r \in 1..Min(n, Len(rows)) |->
        rows[CHOOSE i \in 1..Len(rows) : Rank(rows, i) = r - 1]["VendorName"]]

Take(s, n) == [i \in 1..Min(n, Len(s)) |-> s[i]]

\* Lines 308-312: the dictionary of the forecasts that are not None.
Forecasts(sales, names) ==
    LET good == {i \in 1..Len(names) :
                    forecast_demand(sales, names[i], ForecastDays).ret.ok}
    IN  [v \in {names[i] : i \in good} |->
            forecast_demand(sales, v, ForecastDays).ret]

RECURSIVE ForecastLogs(_, _, _)
ForecastLogs(sales, names, i) ==
    IF i > Len(names) THEN <<>>
    ELSE forecast_demand(sales, names[i], ForecastDays).log
         \o ForecastLogs(sales, names, i + 1)

NoForecasts == [v \in {} |-> None]

-----------------------------------------------------------------------------
(* The states the engine starts from.                                      *)

MaxRows == 2
MaxRuns == 2

VendorCols == {"VendorName", "Description", "GrossProfit", "TotalSalesQuantity",
               "TotalSalesDollars", "TotalPurchaseQuantity", "TotalPurchaseDollars",
               "ProfitMargin", "StockTurnover", "SalesToPurchaseRatio"}

VendorRow(name, pm, st, tsd, tpd, tsq, tpq) ==
    [c \in VendorCols \cup {"performancescore", "ProfitMargin_Normalized"} |->
        CASE c = "VendorName" -> name
          [] c = "Description" -> "item"
          [] c = "GrossProfit" -> tsd - tpd
          [] c = "TotalSalesQuantity" -> tsq
          [] c = "TotalSalesDollars" -> tsd
          [] c = "TotalPurchaseQuantity" -> tpq
          [] c = "TotalPurchaseDollars" -> tpd
          [] c = "ProfitMargin" -> pm
          [] c = "StockTurnover" -> st
          [] c = "SalesToPurchaseRatio" -> tsd \div Replace0(tpd)
          [] c = "ProfitMargin_Normalized" -> 50
          [] OTHER -> 0]

Restrict(row, cols) == [c \in cols |-> row[c]]

\* All sequences over S of length at most n.
SeqUpTo(S, n) == UNION {[1..k -> S] : k \in 0..n}

\* The column sets of vendor_sales_summary: complete, a column or two short,
\* with a column that differs from a derived one only in case, or with a
\* normalized column in the place of its feature.
ColumnVariants ==
    {VendorCols,
     VendorCols \cup {"performancescore"},
     VendorCols \ {"ProfitMargin"},
     (VendorCols \ {"ProfitMargin"}) \cup {"ProfitMargin_Normalized"},
     VendorCols \ {"SalesToPurchaseRatio"},
     VendorCols \ {"Description"},
     VendorCols \ {"TotalSalesDollars"},
     VendorCols \ {"TotalSalesQuantity", "StockTurnover"},
     VendorCols \ {"VendorName"}}

PipelineRows ==
    {VendorRow("A", 30, 10, 100, 50, 10, 10),
     VendorRow("A", 30, 10, 200, 50, 10, 10),
     VendorRow("B", 30, 10, 100, 50, 10, 10)}

VendorTables ==
    {NoTable} \cup
    {Table(cols, [i \in 1..Len(rows) |-> Restrict(rows[i], cols)]) :
        cols \in ColumnVariants, rows \in SeqUpTo(PipelineRows, MaxRows)}

SalesCols == {"VendorName", "SalesDate", "SalesQuantity", "SalesDollars"}

\* Twelve sales, ten of vendor A and two of vendor B, two a day.
SalesRow(i) ==
    [c \in SalesCols |->
        CASE c = "VendorName" -> IF i <= 10 THEN "A" ELSE "B"
          [] c = "SalesDate" -> (i + 1) \div 2
          [] c = "SalesQuantity" -> i
          [] c = "SalesDollars" -> 10 * i]

SalesTable(cols) == Table(cols, [i \in 1..12 |-> Restrict(SalesRow(i), cols)])

SalesTables == {NoTable, SalesTable(SalesCols), SalesTable(SalesCols \ {"SalesDate"})}

PurchaseTables == {NoTable, Table({"VendorName"}, <<>>)}

\* What a result table may hold before the first run.
Stale == Table({"VendorName"}, <<[VendorName |-> "Old"]>>)

PriorTables == {NoTable, Stale}

ResultTables == {"vendor_performance_scores", "inventory_recommendations",
                 "vendor_anomalies", "pricing_recommendations"}

InputTables == {"vendor_sales_summary", "sales", "purchases"}

\* Anomaly scores, in tenths.
ScoreValues == {-7, -5}

\* The outlier model sees the feature columns alone: rows that agree on
\* them get the same score.
SameFeatures(r1, r2) ==
    \A c \in AnomalyFeatures \cap DOMAIN r1 : r1[c] = r2[c]

Forests(rows) ==
    {f \in [1..Len(rows) -> ScoreValues] :
        \A i, j \in 1..Len(rows) : SameFeatures(rows[i], rows[j]) => f[i] = f[j]}

Results(d) == [t \in ResultTables |-> d[t]]

Idle ==
    /\ vendor_df = None
    /\ sales_df = None
    /\ purchases_df = None
    /\ scores_df = None
    /\ inventory = <<None, None>>
    /\ anomalies = None
    /\ pricing = None
    /\ forecasts = NoForecasts
    /\ forecast = None
    /\ log = <<>>
    /\ ret = "none"

\* The invocations of the entry point: no flag, --scores-only, --forecast-only.
Modes == {"full", "scores-only", "forecast-only"}

Init ==
    /\ \E v \in VendorTables, s \in SalesTables, p \in PurchaseTables,
          prior \in PriorTables :
          db = [t \in InputTables \cup ResultTables |->
                   CASE t = "vendor_sales_summary" -> v
                     [] t = "sales" -> s
                     [] t = "purchases" -> p
                     [] OTHER -> prior]
    /\ forest \in Forests(db["vendor_sales_summary"].rows)
    /\ mode \in Modes
    /\ pc = "start"
    /\ run = 1
    /\ first = Results(db)
    /\ before = Results(db)
    /\ Idle

-----------------------------------------------------------------------------
(* run_analytics, one action a step.                                       *)

\* pd.read_sql("SELECT * FROM t", engine)
ReadSql(t) == Frame(db[t].cols, db[t].rows)

\* Variant: only the vendor summary is checked.
LoadOkVendorOnly == db["vendor_sales_summary"].exists

\* load_analytics_data: any of the three reads may raise.
LoadOk == \A t \in InputTables : db[t].exists

\* Lines 280-285 and 331-338: what is logged around the load.  The lines
\* of run_analytics are logged by the default mode alone.
LoadLog(ok) ==
    (IF mode = "full" THEN <<LogLine("INFO", "Loading data")>> ELSE <<>>)
    \o (IF ok THEN <<LogLine("INFO", "Loaded data")>>
        ELSE <<LogLine("ERROR", "Failed to load data")>>)
    \o (IF mode = "full" /\ ~ok
        THEN <<LogLine("ERROR", "Analytics failed: No data available")>>
        ELSE <<>>)

\* The step a mode runs first after a load.
AfterLoad(m) == IF m = "forecast-only" THEN "forecast" ELSE "scores"

Load ==
    /\ pc = "start"
    /\ IF LoadOk
       THEN /\ vendor_df' = ReadSql("vendor_sales_summary")
            /\ sales_df' = ReadSql("sales")
            /\ purchases_df' = ReadSql("purchases")
            /\ pc' = AfterLoad(mode)
            /\ ret' = ret
       ELSE /\ UNCHANGED <<vendor_df, sales_df, purchases_df>>
            /\ pc' = "done"
            /\ ret' = IF mode = "full" THEN "False" ELSE ret
    /\ log' = log \o LoadLog(LoadOk)
    /\ UNCHANGED <<db, mode, scores_df, inventory, anomalies, pricing, forecasts,
                   forecast, run, first, before, forest>>

\* Variant: the scores-only mode goes on with the other steps.
AfterScoresAlways(m) == "inventory"

\* Lines 331-334: the scores-only mode ends after the scoring.
AfterScores(m) == IF m = "scores-only" THEN "done" ELSE "inventory"

\* Variant: the step works on the frame it is given, so that the columns
\* it adds appear in the frame of the caller.
AfterCallShared(arg, df) == IF df.ok THEN df ELSE arg

\* Line 54, df = vendor_df.copy(): the frame of the caller after a step
\* that was given arg and returned df.  The step adds its columns to a
\* copy, which leaves the argument as it was; lines 103, 155, 195 and 231
\* copy likewise.
AfterCall(arg, df) == arg

StepScores ==
    /\ pc = "scores"
    /\ LET o == calculate_vendor_scores(vendor_df, db["vendor_performance_scores"])
       IN  /\ scores_df' = o.ret
           /\ vendor_df' = AfterCall(vendor_df, o.ret)
           /\ db' = [db EXCEPT !["vendor_performance_scores"] = o.table]
           /\ log' = log \o (IF mode = "full"
                             THEN <<LogLine("INFO", "Step 1: scores")>>
                             ELSE <<>>) \o o.log
    /\ pc' = AfterScores(mode)
    /\ UNCHANGED <<mode, sales_df, purchases_df, inventory, anomalies,
                   pricing, forecasts, forecast, ret, run, first, before, forest>>

StepInventory ==
    /\ pc = "inventory"
    /\ LET o == optimize_inventory(vendor_df, db["inventory_recommendations"])
       IN  /\ inventory' = o.ret
           /\ db' = [db EXCEPT !["inventory_recommendations"] = o.table]
           /\ log' = log \o <<LogLine("INFO", "Step 2: inventory")>> \o o.log
                     \o (IF o.ret[2].ok
                         THEN <<LogLine("INFO", "Overstocked, Understocked")>>
                         ELSE <<>>)
    /\ pc' = "anomalies"
    /\ UNCHANGED <<mode, vendor_df, sales_df, purchases_df, scores_df, anomalies,
                   pricing, forecasts, forecast, ret, run, first, before, forest>>

StepAnomalies ==
    /\ pc = "anomalies"
    /\ LET o == detect_anomalies(vendor_df, db["vendor_anomalies"], forest, run)
       IN  /\ anomalies' = o.ret
           /\ db' = [db EXCEPT !["vendor_anomalies"] = o.table]
           /\ log' = log \o <<LogLine("INFO", "Step 3: anomalies")>> \o o.log
    /\ pc' = "pricing"
    /\ UNCHANGED <<mode, vendor_df, sales_df, purchases_df, scores_df, inventory,
                   pricing, forecasts, forecast, ret, run, first, before, forest>>

StepPricing ==
    /\ pc = "pricing"
    /\ LET o == optimize_pricing(vendor_df, db["pricing_recommendations"])
       IN  /\ pricing' = o.ret
           /\ db' = [db EXCEPT !["pricing_recommendations"] = o.table]
           /\ log' = log \o <<LogLine("INFO", "Step 4: pricing")>> \o o.log
    /\ pc' = "forecast"
    /\ UNCHANGED <<mode, vendor_df, sales_df, purchases_df, scores_df, inventory,
                   anomalies, forecasts, forecast, ret, run, first, before, forest>>

\* Line 307, vendor_df.nlargest(5, 'TotalSalesDollars')['VendorName']: a
\* missing column is a KeyError, and the column of a summary without rows,
\* which read_sql builds with dtype object, is refused with a TypeError.
CanRank(df) ==
    /\ HasCols(df, {"TotalSalesDollars", "VendorName"})
    /\ Len(df.rows) > 0

\* Variant: success only when every step returned a result.
ReturnIfAllOk(s, i, a, p) ==
    IF s.ok /\ i[1].ok /\ a.ok /\ p.ok THEN "True" ELSE "False"

\* Line 319: return True, whatever the four steps returned.
ReturnValue(s, i, a, p) == "True"

\* Lines 306-319.  The selection of the top vendors is outside every try:
\* when it raises, the run ends with the exception.
StepForecast ==
    /\ pc = "forecast"
    /\ mode = "full"
    /\ IF CanRank(vendor_df)
       THEN LET top_vendors == NLargest(vendor_df.rows, TopCount)
                names == Take(top_vendors, ForecastCount)
            IN  /\ forecasts' = Forecasts(sales_df, names)
                /\ forecast' = IF names = <<>> THEN forecast
                               ELSE forecast_demand(sales_df, names[Len(names)],
                                                    ForecastDays).ret
                /\ log' = log \o <<LogLine("INFO", "Step 5: forecast")>>
                          \o ForecastLogs(sales_df, names, 1)
                          \o <<LogLine("INFO", "ANALYTICS COMPLETED")>>
                /\ ret' = ReturnValue(scores_df, inventory, anomalies, pricing)
       ELSE /\ forecasts' = forecasts
            /\ forecast' = forecast
            /\ log' = log \o <<LogLine("INFO", "Step 5: forecast")>>
            /\ ret' = "raised"
    /\ pc' = "done"
    /\ UNCHANGED <<db, mode, vendor_df, sales_df, purchases_df, scores_df,
                   inventory, anomalies, pricing, run, first, before, forest>>

\* Lines 335-338: the forecast-only mode forecasts the whole of the sales,
\* without a vendor filter.
ForecastOnly ==
    /\ pc = "forecast"
    /\ mode = "forecast-only"
    /\ LET o == forecast_demand(sales_df, NoVendor, ForecastDays)
       IN  /\ forecast' = o.ret
           /\ log' = log \o o.log
    /\ pc' = "done"
    /\ UNCHANGED <<db, mode, vendor_df, sales_df, purchases_df, scores_df,
                   inventory, anomalies, pricing, forecasts, ret, run, first,
                   before, forest>>

\* The entry point is started again on the same store.
Rerun ==
    /\ pc = "done"
    /\ run < MaxRuns
    /\ run' = run + 1
    /\ first' = IF run = 1 THEN Results(db) ELSE first
    /\ pc' = "start"
    /\ vendor_df' = None
    /\ sales_df' = None
    /\ purchases_df' = None
    /\ scores_df' = None
    /\ inventory' = <<None, None>>
    /\ anomalies' = None
    /\ pricing' = None
    /\ forecasts' = NoForecasts
    /\ forecast' = None
    /\ log' = <<>>
    /\ ret' = "none"
    /\ before' = Results(db)
    /\ UNCHANGED <<db, mode, forest>>

Next ==
    \/ Load
    \/ StepScores
    \/ StepInventory
    \/ StepAnomalies
    \/ StepPricing
    \/ StepForecast
    \/ ForecastOnly
    \/ Rerun

Spec == Init /\ [][Next]_vars

-----------------------------------------------------------------------------
(* Claims about the whole run, checked under Spec.                         *)

LoadFails == \E t \in InputTables : ~db[t].exists

Logged(level, msg) == \E i \in 1..Len(log) : log[i] = LogLine(level, msg)

NothingReturned ==
    /\ scores_df = None
    /\ inventory = <<None, None>>
    /\ anomalies = None
    /\ pricing = None
    /\ forecasts = NoForecasts

\* C1: after a second run on unchanged inputs each of the four result
\* tables holds exactly what the first run left in it, whatever the tables
\* held before the first run.
C1_SecondRunSameTables ==
    (run >= 2 /\ pc = "done") => Results(db) = first

\* A second run has ended after a first one that rewrote all four tables,
\* the anomalies table with a flagged row.
C1_Witness ==
    /\ run = 2
    /\ pc = "done"
    /\ ret = "True"
    /\ \A t \in ResultTables : db[t].exists /\ db[t] # Stale
    /\ Len(db["vendor_anomalies"].rows) > 0

\* C2: when an input table cannot be loaded the run logs an error, returns
\* False, runs no analytical step and leaves every result table as it
\* found it.
C2_LoadFailureAborts ==
    (mode = "full" /\ LoadFails /\ pc # "start") =>
        /\ pc = "done"
        /\ ret = "False"
        /\ Logged("ERROR", "Failed to load data")
        /\ Logged("ERROR", "Analytics failed: No data available")
        /\ NothingReturned
        /\ \A i \in 1..Len(log) :
               log[i].level # "INFO" \/ log[i].msg = "Loading data"
        /\ Results(db) = before

\* A run has ended on a store where only the sales table is missing.
C2_Witness ==
    /\ mode = "full"
    /\ pc = "done"
    /\ ret = "False"
    /\ ~db["sales"].exists
    /\ db["vendor_sales_summary"].exists
    /\ db["purchases"].exists
    /\ Len(db["vendor_sales_summary"].rows) > 0

\* C3: after a successful load every failure of a step is caught and
\* logged inside the run, so the run reaches its end through all of its steps
\* and never ends with an uncaught exception.
C3_NoUncaughtException ==
    (mode = "full" /\ ~LoadFails /\ pc = "done") =>
        /\ ret = "True"
        /\ Logged("INFO", "ANALYTICS COMPLETED")

\* C4: a persisting step that returns its failure sentinel leaves the
\* result table it owns with the content it had before the step.
C4_FailedStepKeepsTable ==
    (~LoadFails /\ pc \in {"inventory", "anomalies", "pricing", "forecast", "done"}) =>
        /\ scores_df = None =>
               db["vendor_performance_scores"] = before["vendor_performance_scores"]
        /\ (pc # "inventory" /\ inventory = <<None, None>>) =>
               db["inventory_recommendations"] = before["inventory_recommendations"]
        /\ (pc \notin {"inventory", "anomalies"} /\ anomalies = None) =>
               db["vendor_anomalies"] = before["vendor_anomalies"]
        /\ (pc \in {"forecast", "done"} /\ pricing = None) =>
               db["pricing_recommendations"] = before["pricing_recommendations"]

\* The columns the claim calls required: the features and the inputs of
\* EfficiencyRatio.
Required == {"ProfitMargin", "StockTurnover", "TotalSalesDollars",
             "TotalPurchaseDollars"}

ScoringRan == mode # "forecast-only" /\ ~LoadFails /\ pc \notin {"start", "scores"}

\* C14: when the vendor summary lacks a required feature column the scoring
\* step fails as a whole: it logs the error, returns None and leaves
\* vendor_performance_scores as it found it.
C14_MissingFeatureFails ==
    (ScoringRan /\ ~HasCols(vendor_df, Required)) =>
        /\ scores_df = None
        /\ Logged("ERROR", "Failed to calculate scores")
        /\ db["vendor_performance_scores"] = before["vendor_performance_scores"]

\* The steps that have been run by now, by the table they own.
Ran(t) ==
    /\ ~LoadFails
    /\ CASE t = "vendor_performance_scores" -> ScoringRan
         [] t = "inventory_recommendations" ->
                mode = "full" /\ pc \in {"anomalies", "pricing", "forecast", "done"}
         [] t = "vendor_anomalies" ->
                mode = "full" /\ pc \in {"pricing", "forecast", "done"}
         [] t = "pricing_recommendations" ->
                mode = "full" /\ pc \in {"forecast", "done"}

\* What the step that owns table t returned.
Returned(t) ==
    CASE t = "vendor_performance_scores" -> scores_df
      [] t = "inventory_recommendations" -> inventory[1]
      [] t = "vendor_anomalies" -> anomalies
      [] t = "pricing_recommendations" -> pricing

\* C15: after a persisting step has succeeded its table holds exactly the
\* rows the step derived from the loaded vendor summary, each row once, and
\* no row of what the table held before the run.
C15_TableFullyReplaced ==
    \A t \in ResultTables : (Ran(t) /\ Returned(t).ok) =>
        /\ db[t] = Table(Returned(t).cols, Returned(t).rows)
        /\ Len(db[t].rows) <= Len(vendor_df.rows)
        /\ t # "vendor_anomalies" => Len(db[t].rows) = Len(vendor_df.rows)
        /\ \A i \in 1..Len(db[t].rows) : db[t].rows[i] \notin Range(Stale.rows)

\* A second run has rewritten all four tables, which held the rows of the
\* first run, from a vendor summary of two rows.
C15_Witness ==
    /\ run = 2
    /\ pc = "done"
    /\ \A t \in ResultTables :
           /\ Returned(t).ok
           /\ before[t].exists
           /\ before[t] # Stale
    /\ Len(db["vendor_performance_scores"].rows) = 2
    /\ Len(db["vendor_anomalies"].rows) = 1

Loaded ==
    \/ pc \in {"scores", "inventory", "anomalies", "pricing", "forecast"}
    \/ pc = "done" /\ ~LoadFails

\* C24: no step modifies the frames it is given: from the load to the end
\* of the invocation the vendor summary and the sales in memory have the
\* rows and columns of the tables they were read from, so that every step
\* after the scoring is given the summary as loaded.
C24_InputsAsLoaded ==
    Loaded =>
        /\ vendor_df = ReadSql("vendor_sales_summary")
        /\ sales_df = ReadSql("sales")

\* A full run has ended with every step successful and a forecast made;
\* the scores carry PerformanceScore and the summary of two rows does not.
C24_Witness ==
    /\ mode = "full"
    /\ pc = "done"
    /\ ret = "True"
    /\ \A t \in ResultTables : Returned(t).ok
    /\ DOMAIN forecasts # {}
    /\ "PerformanceScore" \in scores_df.cols
    /\ Len(vendor_df.rows) = 2
    /\ vendor_df = ReadSql("vendor_sales_summary")
    /\ sales_df = ReadSql("sales")

\* C25: a full run that reaches its end returns True whenever the load
\* succeeded, however many of its steps failed, and False only when the
\* load failed: the value tells whether the inputs could be loaded.
C25_TrueMeansLoaded ==
    (mode = "full" /\ pc = "done") =>
        /\ (~LoadFails /\ Logged("INFO", "ANALYTICS COMPLETED")) => ret = "True"
        /\ ret = "True" => ~LoadFails
        /\ LoadFails <=> ret = "False"

\* A run on a vendor summary of two rows without TotalSalesQuantity and
\* StockTurnover: the four persisting steps failed, no result table was
\* written, and the run made its forecast and returned True.
C25_Witness ==
    /\ mode = "full"
    /\ pc = "done"
    /\ ret = "True"
    /\ Len(vendor_df.rows) = 2
    /\ \A t \in ResultTables : Returned(t) = None
    /\ DOMAIN forecasts # {}
    /\ Results(db) = before
    /\ Logged("ERROR", "Failed to calculate scores")
    /\ Logged("ERROR", "Inventory optimization failed")
    /\ Logged("ERROR", "Anomaly detection failed")
    /\ Logged("ERROR", "Price optimization failed")
    /\ Logged("INFO", "ANALYTICS COMPLETED")

\* C16: a --scores-only invocation runs the scoring alone and modifies no
\* result table but vendor_performance_scores; a --forecast-only invocation
\* runs one forecast and modifies no result table; the other steps are run
\* by the default mode alone.
C16_SingleStepModes ==
    /\ mode = "scores-only" =>
           /\ pc \in {"start", "scores", "done"}
           /\ \A t \in ResultTables \ {"vendor_performance_scores"} :
                  db[t] = before[t]
           /\ inventory = <<None, None>> /\ anomalies = None /\ pricing = None
           /\ forecast = None /\ forecasts = NoForecasts
    /\ mode = "forecast-only" =>
           /\ pc \in {"start", "forecast", "done"}
           /\ Results(db) = before
           /\ NothingReturned
    /\ mode # "full" => ret = "none"

\* A --scores-only invocation has ended: the scores are written over the
\* earlier content and the three other tables still hold theirs.
C16_Witness ==
    /\ mode = "scores-only"
    /\ pc = "done"
    /\ scores_df.ok
    /\ Len(scores_df.rows) = 2
    /\ db["vendor_performance_scores"] = Table(scores_df.cols, scores_df.rows)
    /\ before["vendor_performance_scores"] = Stale
    /\ \A t \in ResultTables \ {"vendor_performance_scores"} : db[t] = Stale

-----------------------------------------------------------------------------
(* The steps on richer data: each of the following specifications starts   *)
(* the pipeline on a complete store whose vendor summary is drawn from a   *)
(* set of tables that covers the cases of one step, and runs it up to that *)
(* step.  The result tables hold earlier content.                          *)

MaxScoreRows == 2
MaxInventoryRows == 2
MaxPricingRows == 1

InitWith(tables) ==
    /\ \E v \in tables :
          db = [t \in InputTables \cup ResultTables |->
                   CASE t = "vendor_sales_summary" -> v
                     [] t = "sales" -> SalesTable(SalesCols)
                     [] t = "purchases" -> Table({"VendorName"}, <<>>)
                     [] OTHER -> Stale]
    /\ forest = [i \in 1..Len(db["vendor_sales_summary"].rows) |-> -5]
    /\ mode = "full"
    /\ pc = "start"
    /\ run = 1
    /\ first = Results(db)
    /\ before = Results(db)
    /\ Idle

TablesOf(rowset, n) ==
    {Table(VendorCols, [i \in 1..Len(rows) |-> Restrict(rows[i], VendorCols)]) :
        rows \in SeqUpTo(rowset, n)}

\* Margins below, at and above zero; turnover, sales and purchases zero or not.
ScoreRows ==
    {VendorRow("A", pm, st, tsd, tpd, 4, 10) :
        pm \in {-40, 0, 35}, st \in {0, 10}, tsd \in {0, 100}, tpd \in {0, 50}}

InitScores == InitWith(TablesOf(ScoreRows, MaxScoreRows))

NextScores ==
    \/ Load
    \/ StepScores

SpecScores == InitScores /\ [][NextScores]_vars

\* Vendors without sales or without purchases: quantities and dollars that
\* are zero or not, a gross profit that is negative, zero or positive.
MaxDegenerateRows == 2

DegenerateRows ==
    {VendorRow("A", 40, 10, tsd, tpd, tsq, 10) :
        tsd \in {0, 100}, tpd \in {0, 50}, tsq \in {0, 4}}

InitDegenerate == InitWith(TablesOf(DegenerateRows, MaxDegenerateRows))

SpecDegenerate == InitDegenerate /\ [][NextScores]_vars

\* Turnover below 0.5, between, and above 2.0; a demand of 0, of 41/5 and
\* of 10 a day; a stock of 0, and of 246: above the order quantity of no
\* sales, below the 300 of sales of 3650, and the 30 days of supply of
\* sales of 2993, which the doubles of line 162 make 245.99999999999997.
InventoryRows ==
    {VendorRow("A", 30, st, 100, 50, tsq, tpq) :
        st \in {3, 10, 25}, tsq \in {0, 2993, 3650}, tpq \in {0, 246}}

InitInventory == InitWith(TablesOf(InventoryRows, MaxInventoryRows))

NextInventory ==
    \/ Load
    \/ StepScores
    \/ StepInventory

SpecInventory == InitInventory /\ [][NextInventory]_vars

\* Margins around 20 and 60, turnover around 1.0, prices with and without
\* a zero quantity, a purchase price below 1.
PricingRows ==
    {VendorRow("A", pm, st, 100, tpd, tsq, tpq) :
        pm \in {15, 20, 60, 70}, st \in {5, 10, 15}, tpd \in {0, 50},
        tsq \in {0, 4}, tpq \in {0, 100}}

InitPricing == InitWith(TablesOf(PricingRows, MaxPricingRows))

NextPricing ==
    \/ Load
    \/ StepScores
    \/ StepInventory
    \/ StepAnomalies
    \/ StepPricing

SpecPricing == InitPricing /\ [][NextPricing]_vars

\* A population large enough for the outlier model to flag two rows; the
\* rows differ in their margin, which is the position of the row.
MaxAnomalyRows == 12

AnomalyRow(i) == VendorRow("A", i, 10, 100, 50, 10, 10)

AnomalyTables ==
    {Table(VendorCols, [i \in 1..n |-> Restrict(AnomalyRow(i), VendorCols)]) :
        n \in {1, MaxAnomalyRows - 1, MaxAnomalyRows}}

\* The scores of a population in which up to two rows stand out.
OutlierForests(n) ==
    {[i \in 1..n |-> IF i \in DOMAIN g THEN g[i] ELSE -5] :
        g \in UNION {[L -> {-7, -6}] :
                        L \in {S \in SUBSET (1..n) : Cardinality(S) <= 2}}}

InitAnomalies ==
    /\ \E v \in AnomalyTables :
          db = [t \in InputTables \cup ResultTables |->
                   CASE t = "vendor_sales_summary" -> v
                     [] t = "sales" -> SalesTable(SalesCols)
                     [] t = "purchases" -> Table({"VendorName"}, <<>>)
                     [] OTHER -> Stale]
    /\ forest \in OutlierForests(Len(db["vendor_sales_summary"].rows))
    /\ mode = "full"
    /\ pc = "start"
    /\ run = 1
    /\ first = Results(db)
    /\ before = Results(db)
    /\ Idle

NextAnomalies ==
    \/ Load
    \/ StepScores
    \/ StepInventory
    \/ StepAnomalies

SpecAnomalies == InitAnomalies /\ [][NextAnomalies]_vars

\* Sales for the forecaster: nA sales of vendor A followed by nB of vendor
\* B, perDay of them on each date.
MaxSalesRows == 16

ForecastSalesRow(i, nA, perDay) ==
    [c \in SalesCols |->
        CASE c = "VendorName" -> IF i <= nA THEN "A" ELSE "B"
          [] c = "SalesDate" -> (i - 1) \div perDay + 1
          [] c = "SalesQuantity" -> i
          [] c = "SalesDollars" -> 10 * i]

ForecastSalesCols ==
    {SalesCols, SalesCols \ {"SalesDate"}, SalesCols \ {"VendorName"},
     SalesCols \ {"SalesQuantity"}}

\* One row short of the minimum, the minimum, and enough dates for the
\* longest window; each a sale a day, two a day, or all on one date.
ForecastSalesTables ==
    {Table(cols, [i \in 1..(nA + nB) |->
                     Restrict(ForecastSalesRow(i, nA, perDay), cols)]) :
        nA \in {MinForecastRows - 1, MinForecastRows, MaxSalesRows},
        nB \in {0, 2},
        perDay \in {1, 2, MaxSalesRows + 2},
        cols \in ForecastSalesCols}

InitForecast ==
    /\ \E v \in TablesOf(PipelineRows, MaxRows), s \in ForecastSalesTables :
          db = [t \in InputTables \cup ResultTables |->
                   CASE t = "vendor_sales_summary" -> v
                     [] t = "sales" -> s
                     [] t = "purchases" -> Table({"VendorName"}, <<>>)
                     [] OTHER -> Stale]
    /\ forest = [i \in 1..Len(db["vendor_sales_summary"].rows) |-> -5]
    /\ mode \in {"full", "forecast-only"}
    /\ pc = "start"
    /\ run = 1
    /\ first = Results(db)
    /\ before = Results(db)
    /\ Idle

NextForecast ==
    \/ Load
    \/ StepScores
    \/ StepInventory
    \/ StepAnomalies
    \/ StepPricing
    \/ StepForecast
    \/ ForecastOnly

SpecForecast == InitForecast /\ [][NextForecast]_vars

\* Sales that fill more than one bin: lead sales of vendor B followed by nA
\* of vendor A, one a day.
BinSalesTables ==
    {Table(cols, [i \in 1..(lead + nA) |->
                     Restrict([ForecastSalesRow(i, nA, 1) EXCEPT
                                  !["VendorName"] = IF i <= lead THEN "B" ELSE "A"],
                              cols)]) :
        lead \in {0, BinSize \div 2},
        nA \in {BinSize + 20, 2 * BinSize + 10},
        cols \in {SalesCols, SalesCols \ {"SalesDate"}}}

BinVendorTables ==
    TablesOf({VendorRow("A", 30, 10, 200, 50, 10, 10),
              VendorRow("B", 30, 10, 100, 50, 10, 10)}, MaxRows)

InitBins ==
    /\ \E v \in BinVendorTables, s \in BinSalesTables :
          db = [t \in InputTables \cup ResultTables |->
                   CASE t = "vendor_sales_summary" -> v
                     [] t = "sales" -> s
                     [] t = "purchases" -> Table({"VendorName"}, <<>>)
                     [] OTHER -> Stale]
    /\ forest = [i \in 1..Len(db["vendor_sales_summary"].rows) |-> -5]
    /\ mode \in {"full", "forecast-only"}
    /\ pc = "start"
    /\ run = 1
    /\ first = Results(db)
    /\ before = Results(db)
    /\ Idle

SpecBins == InitBins /\ [][NextForecast]_vars

\* A vendor summary with a row per vendor and item: vendor A has two rows,
\* and four vendors have sales.  The tables are the selections of at most
\* MaxTopRows of these rows, in their order.
MaxTopRows == 4

TopList ==
    <<VendorRow("C", 30, 10, 50, 20, 10, 10),
      VendorRow("A", 30, 10, 300, 50, 10, 10),
      VendorRow("B", 30, 10, 100, 50, 10, 10),
      VendorRow("A", 30, 10, 200, 50, 10, 10),
      VendorRow("D", 30, 10, 25, 10, 10, 10)>>

TopVendorTables ==
    {Table(VendorCols,
           LET rows == SelectRows(TopList, keep)
           IN  [i \in 1..Len(rows) |-> Restrict(rows[i], VendorCols)]) :
        keep \in {k \in SUBSET (1..Len(TopList)) : Cardinality(k) <= MaxTopRows}}

\* Ten sales for each of A, B and D, and nC for C.
TopSalesRow(i, perDay) ==
    [c \in SalesCols |->
        CASE c = "VendorName" -> <<"A", "B", "C", "D">>[(i - 1) \div 10 + 1]
          [] c = "SalesDate" -> ((i - 1) % 10) \div perDay + 1
          [] c = "SalesQuantity" -> i
          [] c = "SalesDollars" -> 10 * i]

TopSalesTables ==
    {Table(cols,
           LET rows == SelectRows([i \in 1..40 |-> TopSalesRow(i, perDay)],
                                  (1..40) \ ((20 + nC + 1)..30))
           IN  [i \in 1..Len(rows) |-> Restrict(rows[i], cols)]) :
        nC \in {MinForecastRows - 1, MinForecastRows},
        perDay \in {1, 2},
        cols \in {SalesCols, SalesCols \ {"SalesDate"}}}

InitTop ==
    /\ \E v \in TopVendorTables, s \in TopSalesTables :
          db = [t \in InputTables \cup ResultTables |->
                   CASE t = "vendor_sales_summary" -> v
                     [] t = "sales" -> s
                     [] t = "purchases" -> Table({"VendorName"}, <<>>)
                     [] OTHER -> Stale]
    /\ forest \in Forests(db["vendor_sales_summary"].rows)
    /\ mode \in {"full", "forecast-only"}
    /\ pc = "start"
    /\ run = 1
    /\ first = Results(db)
    /\ before = Results(db)
    /\ Idle

SpecTop == InitTop /\ [][NextForecast]_vars

-----------------------------------------------------------------------------
(* Claims about calculate_vendor_scores, checked under SpecScores.         *)

Scored == pc = "inventory" /\ scores_df.ok

ScoredRows == {scores_df.rows[i] : i \in 1..Len(scores_df.rows)}

\* C5: every row of the scored table has a PerformanceScore in [0, 100].
C5_ScoreInRange ==
    Scored => \A row \in ScoredRows :
                  /\ DLe(R(0), row["PerformanceScore"])
                  /\ DLe(row["PerformanceScore"], R(100))

\* C6: the tier of a scored row is the label of the right-closed bin its
\* score lies in: (0,25] Poor, (25,50] Fair, (50,75] Good, (75,100] Excellent.
C6_TierMatchesBin ==
    Scored => \A row \in ScoredRows :
        LET x == row["PerformanceScore"]
            t == row["PerformanceTier"]
        IN  /\ (DLt(R(0), x) /\ DLe(x, R(25))) => t = "Poor"
            /\ (DLt(R(25), x) /\ DLe(x, R(50))) => t = "Fair"
            /\ (DLt(R(50), x) /\ DLe(x, R(75))) => t = "Good"
            /\ (DLt(R(75), x) /\ DLe(x, R(100))) => t = "Excellent"

\* A table is written in which one row scores exactly 100 and is
\* Excellent and another, whose weighted sum is the fraction 25, scores
\* 25.000000000000007 in the doubles of the code and is Fair.
C6_Witness ==
    /\ Scored
    /\ db["vendor_performance_scores"] = Table(scores_df.cols, scores_df.rows)
    /\ \E row \in ScoredRows :
           row["PerformanceScore"] = <<25, 1, 2>> /\ row["PerformanceTier"] = "Fair"
    /\ \E row \in ScoredRows :
           row["PerformanceScore"] = R(100) /\ row["PerformanceTier"] = "Excellent"

\* C7: every row written to vendor_performance_scores has a tier among
\* Poor, Fair, Good, Excellent, a row that scores exactly 0 included.
C7_EveryRowHasTier ==
    Scored => \A i \in 1..Len(db["vendor_performance_scores"].rows) :
        db["vendor_performance_scores"].rows[i]["PerformanceTier"]
            \in {"Poor", "Fair", "Good", "Excellent"}

\* C19: the score of every scored row is 0.35, 0.25, 0.25 and 0.15 times its
\* normalized margin, turnover, sales and efficiency ratio, up to the
\* rounding of the sum; the weights add up to 1, so a row that holds the
\* positive maximum of all four columns scores exactly 100.
C19_WeightedComposite ==
    Scored => \A row \in ScoredRows :
        /\ Exact(row["PerformanceScore"]) =
               RAdd(RAdd(RMul(Rat(35, 100), row["ProfitMargin_Normalized"]),
                         RMul(Rat(25, 100), row["StockTurnover_Normalized"])),
                    RAdd(RMul(Rat(25, 100), row["TotalSalesDollars_Normalized"]),
                         RMul(Rat(15, 100), row["EfficiencyRatio_Normalized"])))
        /\ (/\ row["ProfitMargin"] > 0
            /\ row["StockTurnover"] > 0
            /\ row["TotalSalesDollars"] > 0
            /\ \A other \in ScoredRows :
                   /\ other["ProfitMargin"] <= row["ProfitMargin"]
                   /\ other["StockTurnover"] <= row["StockTurnover"]
                   /\ other["TotalSalesDollars"] <= row["TotalSalesDollars"]
                   /\ RLe(other["EfficiencyRatio"], row["EfficiencyRatio"]))
               => row["PerformanceScore"] = R(100)

\* A row that holds all four maxima scores 100 beside a row that holds the
\* maximum of the margin alone and scores 35.
C19_Witness ==
    /\ Scored
    /\ \E r1, r2 \in ScoredRows :
           /\ r1["PerformanceScore"] = R(100)
           /\ r2["ProfitMargin_Normalized"] = R(100)
           /\ r2["StockTurnover_Normalized"] = R(0)
           /\ r2["PerformanceScore"] = R(35)

\* C18: a row without sales does not make the scoring fail and gets
\* ProfitPerUnit = GrossProfit / 1, a row without purchases gets
\* EfficiencyRatio = TotalSalesDollars / 1; neither value is undefined.
C18_ZeroDenominators ==
    (pc = "inventory" /\ ~LoadFails) =>
        /\ scores_df.ok
        /\ \A i \in 1..Len(vendor_df.rows) :
               LET in == vendor_df.rows[i]
                   out == scores_df.rows[i]
               IN  /\ ~IsNaN(out["ProfitPerUnit"])
                   /\ ~IsNaN(out["EfficiencyRatio"])
                   /\ in["TotalSalesQuantity"] = 0 =>
                          out["ProfitPerUnit"] = R(in["GrossProfit"])
                   /\ in["TotalPurchaseDollars"] = 0 =>
                          out["EfficiencyRatio"] = R(in["TotalSalesDollars"])
                   /\ db["vendor_performance_scores"].rows[i] = out

\* A vendor without sales quantity and without purchases is scored beside
\* one that has both: its profit per unit is its gross profit of 100, its
\* efficiency ratio its sales of 100.
C18_Witness ==
    /\ Scored
    /\ Len(scores_df.rows) = 2
    /\ vendor_df.rows[1]["TotalSalesQuantity"] = 0
    /\ vendor_df.rows[1]["TotalPurchaseDollars"] = 0
    /\ vendor_df.rows[1]["GrossProfit"] = 100
    /\ scores_df.rows[1]["ProfitPerUnit"] = R(100)
    /\ scores_df.rows[1]["EfficiencyRatio"] = R(100)
    /\ vendor_df.rows[2]["TotalSalesQuantity"] = 4
    /\ scores_df.rows[2]["ProfitPerUnit"] = Rat(25, 2)

FeatureValue(row, f) == IF f = "EfficiencyRatio" THEN row[f] ELSE R(row[f])

FeatureMax(f) ==
    CHOOSE m \in {FeatureValue(row, f) : row \in ScoredRows} :
        \A row \in ScoredRows : RLe(FeatureValue(row, f), m)

AllZero(f) == \A row \in ScoredRows : FeatureValue(row, f) = R(0)

Features == {"ProfitMargin", "StockTurnover", "TotalSalesDollars", "EfficiencyRatio"}

\* C8 as stated: every normalized value is value / column_max * 100, and 0
\* in an all-zero column.
C8_NormalizedByMax ==
    (Scored /\ ScoredRows # {}) => \A f \in Features : \A row \in ScoredRows :
        row[NormalizedCol(f)] =
            IF AllZero(f) THEN R(0)
            ELSE RMul(RDiv(FeatureValue(row, f), FeatureMax(f)), R(100))

\* C8 as amended: when the column maximum is positive every normalized
\* value is value / column_max * 100 and a row holding the maximum gets 100;
\* when the maximum is zero or negative every row gets 0.
C8_NormalizedByPositiveMax ==
    (Scored /\ ScoredRows # {}) => \A f \in Features : \A row \in ScoredRows :
        /\ RGt(FeatureMax(f), R(0)) =>
              /\ row[NormalizedCol(f)] =
                     RMul(RDiv(FeatureValue(row, f), FeatureMax(f)), R(100))
              /\ FeatureValue(row, f) = FeatureMax(f) => row[NormalizedCol(f)] = R(100)
        /\ ~RGt(FeatureMax(f), R(0)) => row[NormalizedCol(f)] = R(0)

\* A scored table with a column whose maximum is positive and is held by a
\* row normalized to 100 beside a row normalized to less, and a column of
\* negative values normalized to 0.
C8_Witness ==
    /\ Scored
    /\ \E r1, r2 \in ScoredRows :
           /\ r1["TotalSalesDollars"] = 100
           /\ r1["TotalSalesDollars_Normalized"] = R(100)
           /\ r2["TotalSalesDollars_Normalized"] = R(0)
           /\ r1["StockTurnover_Normalized"] = R(100)
    /\ \A row \in ScoredRows :
           row["ProfitMargin"] < 0 /\ row["ProfitMargin_Normalized"] = R(0)

-----------------------------------------------------------------------------
(* Claims about optimize_inventory, checked under SpecInventory.           *)

Recommended == pc = "anomalies" /\ inventory[1].ok

\* C9: no recommended row is both overstocked and understocked, and the
\* three counts of the summary add up to the number of input rows.
C9_FlagsExclusive ==
    Recommended =>
        /\ \A i \in 1..Len(inventory[1].rows) :
               ~(inventory[1].rows[i]["IsOverstocked"]
                 /\ inventory[1].rows[i]["IsUnderstocked"])
        /\ inventory[2].overstocked_items + inventory[2].understocked_items
               + inventory[2].optimal_items = Len(vendor_df.rows)

\* Recommendations with one overstocked and one understocked row.
C9_Witness ==
    /\ Recommended
    /\ Len(inventory[1].rows) = 2
    /\ inventory[1].rows[1]["IsOverstocked"]
    /\ inventory[1].rows[2]["IsUnderstocked"]
    /\ inventory[2].overstocked_items = 1
    /\ inventory[2].understocked_items = 1

\* C17: every recommended row has DemandRate = TotalSalesQuantity / 365,
\* ReorderPoint = DemandRate * 7 + SafetyStock with SafetyStock =
\* DemandRate * 7 * 1.5, and OptimalOrderQuantity = DemandRate * 30, each
\* up to the rounding of the doubles; sales of 3650 give a rate of 10, a
\* reorder point of 175 and an order of 300.
C17_InventoryFormulas ==
    Recommended => \A i \in 1..Len(inventory[1].rows) :
        LET q == vendor_df.rows[i]["TotalSalesQuantity"]
            out == inventory[1].rows[i]
            rate == Rat(q, 365)
            safety == RMul(RMul(rate, R(7)), Rat(15, 10))
        IN  /\ out["DemandRate"] = rate
            /\ out["ReorderPoint"] = RAdd(RMul(rate, R(7)), safety)
            /\ Exact(out["OptimalOrderQuantity"]) = RMul(rate, R(30))
            /\ q = 3650 =>
                   /\ out["DemandRate"] = R(10)
                   /\ safety = R(105)
                   /\ out["ReorderPoint"] = R(175)
                   /\ out["OptimalOrderQuantity"] = R(300)
            /\ db["inventory_recommendations"].rows[i] = out

\* Recommendations for a row with sales of 3650 beside one with sales of
\* 2993, whose rate is not a whole number and whose order quantity is the
\* double next below 246: with a stock of 246 the row is overstocked.
C17_Witness ==
    /\ Recommended
    /\ Len(inventory[1].rows) = 2
    /\ vendor_df.rows[1]["TotalSalesQuantity"] = 3650
    /\ inventory[1].rows[1]["ReorderPoint"] = R(175)
    /\ vendor_df.rows[2]["TotalSalesQuantity"] = 2993
    /\ vendor_df.rows[2]["TotalPurchaseQuantity"] = 246
    /\ inventory[1].rows[2]["DemandRate"] = Rat(41, 5)
    /\ inventory[1].rows[2]["OptimalOrderQuantity"] = <<246, 1, -1>>
    /\ inventory[1].rows[2]["IsOverstocked"]

-----------------------------------------------------------------------------
(* Claims about optimize_pricing, checked under SpecPricing.               *)

Priced == pc = "forecast" /\ pricing.ok

\* C10: the first rule that matches decides directive and price: a margin
\* below 20 gives the increase and 1.075 times the average sale price
\* whatever the turnover; else a margin above 60 with a turnover below 1.0
\* gives the decrease and 0.95 times the price; else the price is kept.
C10_FirstMatchWins ==
    Priced => \A i \in 1..Len(pricing.rows) :
        LET in == vendor_df.rows[i]
            out == pricing.rows[i]
            low == in["ProfitMargin"] < 20
            high == in["ProfitMargin"] > 60 /\ in["StockTurnover"] < 10
        IN  /\ low =>
                /\ out["PriceRecommendation"] = <<"Increase", "by", "5-10%">>
                /\ out["RecommendedPrice"] = RMul(out["AvgSalePrice"], Rat(1075, 1000))
            /\ (~low /\ high) =>
                /\ out["PriceRecommendation"] =
                       <<"Decrease", "by", "5%", "to", "boost", "sales">>
                /\ out["RecommendedPrice"] = RMul(out["AvgSalePrice"], Rat(95, 100))
            /\ (~low /\ ~high) =>
                /\ out["PriceRecommendation"] = <<"Maintain", "current", "price">>
                /\ out["RecommendedPrice"] = out["AvgSalePrice"]

\* A row with a margin of 15, a turnover of 0.5 and an average sale price
\* of 100 is told to increase, to 107.5.
C10_Witness ==
    /\ Priced
    /\ Len(pricing.rows) = 1
    /\ vendor_df.rows[1]["ProfitMargin"] = 15
    /\ vendor_df.rows[1]["StockTurnover"] = 5
    /\ pricing.rows[1]["AvgSalePrice"] = R(100)
    /\ pricing.rows[1]["PriceRecommendation"] = Increase
    /\ pricing.rows[1]["RecommendedPrice"] = Rat(215, 2)
    /\ db["pricing_recommendations"].rows = pricing.rows

\* n / d with the denominator replaced by 1 when it is below 1 (atLeast)
\* or only when it is 0.
PriceOver(n, d, atLeast) ==
    RDiv(n, IF (atLeast /\ RLt(d, R(1))) \/ d = R(0) THEN R(1) ELSE d)

MarkupOf(in, atLeast) ==
    LET sale == PriceOver(R(in["TotalSalesDollars"]),
                          R(in["TotalSalesQuantity"]), atLeast)
        purchase == PriceOver(R(in["TotalPurchaseDollars"]),
                              R(in["TotalPurchaseQuantity"]), atLeast)
    IN  RMul(PriceOver(RSub(sale, purchase), purchase, atLeast), R(100))

\* C22 as stated: every denominator below 1 is replaced by 1, so that
\* CurrentMarkup = (AvgSalePrice - AvgPurchasePrice)
\*                 / max(AvgPurchasePrice, 1) * 100.
C22_DenominatorAtLeastOne ==
    Priced => \A i \in 1..Len(pricing.rows) :
        /\ pricing.rows[i]["AvgSalePrice"] =
               PriceOver(R(vendor_df.rows[i]["TotalSalesDollars"]),
                         R(vendor_df.rows[i]["TotalSalesQuantity"]), TRUE)
        /\ pricing.rows[i]["CurrentMarkup"] = MarkupOf(vendor_df.rows[i], TRUE)

\* C22, amended: only a denominator equal to 0 is replaced by 1; an
\* average purchase price between 0 and 1 divides as it is.
C22_ZeroDenominatorReplaced ==
    Priced => \A i \in 1..Len(pricing.rows) :
        /\ pricing.rows[i]["AvgSalePrice"] =
               PriceOver(R(vendor_df.rows[i]["TotalSalesDollars"]),
                         R(vendor_df.rows[i]["TotalSalesQuantity"]), FALSE)
        /\ pricing.rows[i]["CurrentMarkup"] = MarkupOf(vendor_df.rows[i], FALSE)

\* 100 dollars for 4 units sold and 50 dollars for 100 units bought: the
\* prices are 25 and 0.5 and the markup is 24.5 / 0.5 * 100 = 4900.
C22_Witness ==
    /\ Priced
    /\ Len(pricing.rows) = 1
    /\ vendor_df.rows[1]["TotalSalesQuantity"] = 4
    /\ vendor_df.rows[1]["TotalPurchaseDollars"] = 50
    /\ vendor_df.rows[1]["TotalPurchaseQuantity"] = 100
    /\ pricing.rows[1]["AvgSalePrice"] = R(25)
    /\ pricing.rows[1]["CurrentMarkup"] = R(4900)
    /\ db["pricing_recommendations"].rows = pricing.rows

-----------------------------------------------------------------------------
(* Claims about detect_anomalies, checked under SpecAnomalies.             *)

Detected == pc = "pricing" /\ anomalies.ok

Written == db["vendor_anomalies"].rows

\* C11 as stated: the rows of vendor_anomalies are in ascending order of
\* AnomalyScore, the most anomalous row first.
C11_AscendingByScore ==
    Detected => \A k, l \in 1..Len(Written) :
        k < l => RLe(Written[k]["AnomalyScore"], Written[l]["AnomalyScore"])

\* C11 as amended: the rows of vendor_anomalies stand in the order their
\* vendors have in the vendor summary, whatever their scores; each carries
\* the score the model gave its vendor.
C11_InputOrder ==
    Detected =>
        /\ \A k, l \in 1..Len(Written) :
               k < l => Written[k]["ProfitMargin"] < Written[l]["ProfitMargin"]
        /\ \A k \in 1..Len(Written) :
               /\ Written[k]["ProfitMargin"] \in 1..Len(vendor_df.rows)
               /\ Written[k]["AnomalyScore"] =
                      Rat(forest[Written[k]["ProfitMargin"]], 10)

\* Two rows are written, the less anomalous one first.
C11_Witness ==
    /\ Detected
    /\ Len(Written) = 2
    /\ RGt(Written[1]["AnomalyScore"], Written[2]["AnomalyScore"])

Identity == {"VendorName", "Description"}

\* The rows the fitted model flags: those that score below its offset.
FlaggedByModel == {i \in 1..Len(vendor_df.rows) : RLt(R(forest[i]), Offset(forest))}

ExactlyFlagged ==
    /\ Len(Written) = Cardinality(FlaggedByModel)
    /\ {Written[k]["ProfitMargin"] : k \in 1..Len(Written)} = FlaggedByModel

\* C12 as stated: vendor_anomalies holds exactly the flagged rows, each with
\* the vendor identity, the four raw features and AnomalyScore.
C12_FlaggedWithFourFeatures ==
    Detected =>
        /\ ExactlyFlagged
        /\ Identity \cup AnomalyFeatures \cup {"AnomalyScore"}
               \subseteq db["vendor_anomalies"].cols

\* C12 as amended: vendor_anomalies holds exactly the flagged rows, each with
\* VendorName, Description, ProfitMargin, StockTurnover and AnomalyScore and
\* no other column; the values are those of the vendor summary.
C12_FlaggedWithTwoFeatures ==
    Detected =>
        /\ ExactlyFlagged
        /\ db["vendor_anomalies"].cols =
               Identity \cup {"ProfitMargin", "StockTurnover", "AnomalyScore"}
        /\ \A k \in 1..Len(Written) :
               \A c \in Identity \cup {"ProfitMargin", "StockTurnover"} :
                   Written[k][c] = vendor_df.rows[Written[k]["ProfitMargin"]][c]

\* Of eleven vendors two stand out and the lower one alone is flagged and
\* written.
C12_Witness ==
    /\ Detected
    /\ Len(vendor_df.rows) = 11
    /\ Cardinality({i \in 1..11 : forest[i] < -5}) = 2
    /\ Len(Written) = 1
    /\ Written[1]["AnomalyScore"] = Rat(-7, 10)

-----------------------------------------------------------------------------
(* Claims about forecast_demand, checked under SpecForecast.               *)

\* The vendors run_analytics forecasts, in the order of the calls.
Called == Take(NLargest(vendor_df.rows, TopCount), ForecastCount)

\* The line the i-th call of the run logged; the run's last line follows
\* the lines of the calls.
CallLine(i) == log[Len(log) - 1 - Len(Called) + i]

SalesOf(v) ==
    {j \in 1..Len(sales_df.rows) : sales_df.rows[j]["VendorName"] = v}

Insufficient == LogLine("WARNING", "Insufficient data for forecasting")

FullRunEnded == mode = "full" /\ pc = "done" /\ ret = "True"

ForecastOnlyEnded == mode = "forecast-only" /\ pc = "done" /\ ~LoadFails

\* C13: a call that is left with fewer than 10 rows after the vendor filter
\* returns None and logs the warning; the store is not written and the
\* caller sees no exception.
C13_TooFewRowsNoResult ==
    /\ ForecastOnlyEnded =>
           /\ Results(db) = before
           /\ ret # "raised"
           /\ Len(sales_df.rows) < 10 =>
                  forecast = None /\ log[Len(log)] = Insufficient
    /\ (FullRunEnded /\ "VendorName" \in sales_df.cols) =>
           \A i \in 1..Len(Called) :
               Cardinality(SalesOf(Called[i])) < 10 =>
                   /\ Called[i] \notin DOMAIN forecasts
                   /\ CallLine(i) = Insufficient

\* A run forecast vendor A from ten sales and had no result for vendor B,
\* whose two sales are too few.
C13_Witness ==
    /\ FullRunEnded
    /\ Called = <<"A", "B">>
    /\ Cardinality(SalesOf("A")) = 10
    /\ Cardinality(SalesOf("B")) = 2
    /\ DOMAIN forecasts = {"A"}
    /\ forecast = None
    /\ CallLine(2) = Insufficient

\* The number of grouped points of the rows at the positions in kept, and
\* the forecast the claim gives for column c: the horizon times the mean of
\* the last w group sums.
GroupedPoints(kept) == Cardinality({GroupKey(sales_df, i) : i \in kept})

WindowMean(kept, c) ==
    LET keys == {GroupKey(sales_df, i) : i \in kept}
        w == Min(7, Cardinality(keys) \div 2)
    IN  Rat(GroupSum(sales_df, kept, LastKeys(keys, w), c), w)

IsWindowForecast(result, kept) ==
    /\ result.ok
    /\ ~IsNaN(result.forecast_quantity)
    /\ ~IsNaN(result.forecast_dollars)
    /\ result.forecast_quantity = RMul(R(30), WindowMean(kept, "SalesQuantity"))
    /\ result.forecast_dollars = RMul(R(30), WindowMean(kept, "SalesDollars"))

\* C20: with at least 10 rows left a call returns a result whose quantity
\* and dollars are the horizon times the mean of the last min(7, n div 2)
\* grouped values, a number for every n >= 1, a single date or bin included.
C20_ForecastIsWindowMean ==
    /\ (ForecastOnlyEnded /\ Len(sales_df.rows) >= 10
           /\ HasCols(sales_df, {"SalesQuantity", "SalesDollars"})) =>
           IsWindowForecast(forecast, 1..Len(sales_df.rows))
    /\ (FullRunEnded /\ HasCols(sales_df, SalesCols \ {"SalesDate"})) =>
           \A i \in 1..Len(Called) :
               Cardinality(SalesOf(Called[i])) >= 10 =>
                   /\ Called[i] \in DOMAIN forecasts
                   /\ IsWindowForecast(forecasts[Called[i]], SalesOf(Called[i]))

-----------------------------------------------------------------------------
(* Claims about the binning of forecast_demand, checked under SpecBins.    *)

\* The place of row i among the rows at the positions in kept, from 0.
Place(kept, i) == Cardinality({j \in kept : j < i})

\* The mean the claim gives for column c: the filtered rows are cut into
\* bins of 100 in their order, and the last w bin sums are averaged.
PositionalMean(kept, c) ==
    LET bins == (Cardinality(kept) + 99) \div 100
        w == Min(7, bins \div 2)
        last == {i \in kept : Place(kept, i) \div 100 >= bins - w}
    IN  Rat(SumOver(sales_df, last, c), w)

IsPositionalForecast(result, kept) ==
    /\ result.ok
    /\ result.forecast_quantity = RMul(R(30), PositionalMean(kept, "SalesQuantity"))
    /\ result.forecast_dollars = RMul(R(30), PositionalMean(kept, "SalesDollars"))

\* C21: without a SalesDate column the rows that remain after the vendor
\* filter are grouped into bins of 100 in their order, every bin but the
\* last holding exactly 100 of them, and the forecast is made of these bins.
C21_BinsOfHundredFiltered ==
    /\ (ForecastOnlyEnded /\ "SalesDate" \notin sales_df.cols) =>
           IsPositionalForecast(forecast, 1..Len(sales_df.rows))
    /\ (FullRunEnded /\ "SalesDate" \notin sales_df.cols) =>
           \A i \in 1..Len(Called) :
               Cardinality(SalesOf(Called[i])) >= 10 =>
                   /\ Called[i] \in DOMAIN forecasts
                   /\ IsPositionalForecast(forecasts[Called[i]], SalesOf(Called[i]))

-----------------------------------------------------------------------------
(* Claims about step 5 of run_analytics, checked under SpecTop.            *)

VendorNames == {vendor_df.rows[i]["VendorName"] : i \in 1..Len(vendor_df.rows)}

\* The total sales dollars of a vendor over its rows of the summary.
SalesDollarsOf(v) ==
    SumInts([i \in 1..Len(vendor_df.rows) |->
                IF vendor_df.rows[i]["VendorName"] = v
                THEN vendor_df.rows[i]["TotalSalesDollars"] ELSE 0])

\* The three vendors with the highest total sales dollars.
TopThreeVendors ==
    {v \in VendorNames :
        Cardinality({u \in VendorNames : SalesDollarsOf(u) > SalesDollarsOf(v)}) < 3}

Succeeds(v) == Cardinality(SalesOf(v)) >= 10

\* C23: a full run attempts the three vendors with the highest total
\* sales dollars and keeps an entry for each of them whose forecast
\* succeeded: at most 3 entries, none outside the top 3, and 3 entries
\* when three forecasts succeed, several rows per vendor or not.
C23_TopThreeVendorsForecast ==
    FullRunEnded =>
        /\ Cardinality(DOMAIN forecasts) <= 3
        /\ DOMAIN forecasts \subseteq TopThreeVendors
        /\ Range(Called) = TopThreeVendors
        /\ DOMAIN forecasts = {v \in TopThreeVendors : Succeeds(v)}
        /\ (Len(Called) = 3 /\ \A i \in 1..3 : Succeeds(Called[i])) =>
               Cardinality(DOMAIN forecasts) = 3

====
